---------------------------- MODULE Spec2Model ----------------------------
(***************************************************************************)
(* Intent recognition and tool-dispatch pipeline of the todo chatbot:      *)
(* IntentClassifier, ToolMapper, ConversationContext, the in-memory tool   *)
(* execution boundary, ResponseFormatter and TodoChatbotAgent.             *)
(*                                                                         *)
(* Representation.                                                         *)
(*  - A confidence is a grid point 0..MaxConf of the interval [0.0, 1.0]   *)
(*    (MaxConf stands for 1.0); thresholds live on the same grid, one      *)
(*    extra point above MaxConf stands for a threshold above 1.0, which    *)
(*    the constructor accepts and set_threshold rejects.                   *)
(*  - A python dict is a function whose DOMAIN is the set of its keys.     *)
(*  - A string the code takes apart (task ids, task content) is a sequence *)
(*    of tokens; the other strings are TLA+ strings.                       *)
(*  - The user's text is represented by what the regular expressions of    *)
(*    the parameter extraction find in it (TextInputs).                    *)
(*  - `call' holds the operation invoked last, its arguments, and what it  *)
(*    returned or raised.                                                  *)
(***************************************************************************)
EXTENDS Integers, Sequences, FiniteSets, TLC

VARIABLES
    threshold,              \* IntentClassifier.threshold
    confidence_threshold,   \* TodoChatbotAgent.confidence_threshold
    turns,                  \* ConversationContext.turns
    max_turns,              \* ConversationContext.max_turns
    state,                  \* ConversationContext.state
    active_tasks,           \* ConversationContext.active_tasks
    last_intent,            \* ConversationContext.last_intent
    appended,               \* history: every turn ever appended, in order
    task_store,             \* MCPTOOLInterface._task_store
    next_task_id,           \* MCPTOOLInterface._next_task_id
    mappings,               \* ToolMapper.mappings (the PREDEFINED_MAPPINGS dict)
    input,                  \* the arguments of the call under way
    call,                   \* the last call: operation, arguments, outcome
    conversations,          \* ConversationManager.conversations
    now,                    \* the wall clock datetime.now() reads
    pc,                     \* where each concurrent request stands
    local,                  \* the local values of each concurrent request
    intent_object,          \* an Intent object handed between the stages
    tasks_table,            \* the rows of the tasks table behind TaskService
    next_uuid,              \* how many ids uuid4 has handed out, plus one
    heap                    \* the objects that are shared by reference

ctxVars == <<turns, max_turns, state, active_tasks, last_intent, appended>>

storeVars == <<task_store, next_task_id>>

extVars == <<tasks_table, next_uuid, heap>>

auxVars == <<conversations, now, pc, local, intent_object, extVars>>

vars == <<threshold, confidence_threshold, ctxVars, storeVars, mappings,
          input, call, auxVars>>

-----------------------------------------------------------------------------
(* Bounds *)

MaxConf == 2
MaxTaskNum == 2
MaxTurnsBound == 2
MaxAppends == 4
MaxTasks == 2
TickSeconds == 1800
MaxClock == 5400
MaxManagedTurns == 1
MaxChainTasks == 101
MaxRows == 2

-----------------------------------------------------------------------------
(* python dict helpers *)

EmptyDict == [k \in {} |-> TRUE]

Put(d, k, v) == [x \in (DOMAIN d) \cup {k} |-> IF x = k THEN v ELSE d[x]]

Update(d, e) == [x \in (DOMAIN d) \cup (DOMAIN e) |->
                    IF x \in DOMAIN e THEN e[x] ELSE d[x]]

NoCall == [op |-> "none"]

\* The two requests that may run at the same time.
Threads == {1, 2}

\* No registry entry, the clock at its origin, no request under way, no
\* Intent object yet.
\* An empty tasks table, no shared object.
InitExt ==
    /\ tasks_table = EmptyDict
    /\ next_uuid = 1
    /\ heap = EmptyDict

InitAux ==
    /\ InitExt
    /\ conversations = EmptyDict
    /\ now = 0
    /\ pc = [t \in Threads |-> "idle"]
    /\ local = [t \in Threads |-> EmptyDict]
    /\ intent_object = "None"

-----------------------------------------------------------------------------
(* models/intent.py *)

IntentType == {"ADD_TASK", "LIST_TASKS", "COMPLETE_TASK", "DELETE_TASK",
               "UPDATE_TASK", "AMBIGUOUS"}

ConfLevels == 0..MaxConf

\* Intent.__init__: the confidence range check, then the fields.
Intent(intent_type, confidence, parameters) ==
    IF ~(0 <= confidence /\ confidence <= MaxConf)
    THEN [raised |-> "ValueError", error |-> "confidence"]
    ELSE [raised |-> "none", type |-> intent_type, confidence |-> confidence,
          parameters |-> parameters, state |-> "RECOGNIZED"]

IntentState == {"RECOGNIZED", "VALIDATED", "EXECUTED", "FAILED"}

\* A datetime is a number of clock units; NoTime is the None a caller passes
\* for "no timestamp".
NoTime == -1

\* datetime.isoformat: the text of a datetime.
isoformat(t) == <<"iso", t>>

\* datetime.fromisoformat: the datetime a text denotes.
fromisoformat(text) == text[2]

\* Intent.__init__ with its id and timestamp (timestamp or datetime.now()).
NewIntent(intent_type, confidence, parameters, intent_id, timestamp, t) ==
    LET fields == Intent(intent_type, confidence, parameters)
    IN  IF fields.raised # "none" THEN fields
        ELSE [raised |-> "none", type |-> intent_type,
              confidence |-> confidence, parameters |-> parameters,
              state |-> fields.state, id |-> intent_id,
              timestamp |-> IF timestamp = NoTime THEN t ELSE timestamp]

\* Intent.set_state
intent_set_state(i, new_state) == [i EXCEPT !.state = new_state]

\* Intent.to_dict
intent_to_dict(i) ==
    [id |-> i.id, type |-> i.type, confidence |-> i.confidence,
     parameters |-> i.parameters, timestamp |-> isoformat(i.timestamp),
     state |-> i.state]

\* An Intent.from_dict that leaves the restored object in RECOGNIZED.
intent_from_dict_fresh_state(data, t) ==
    NewIntent(data.type, data.confidence, data.parameters, data.id,
              fromisoformat(data.timestamp), t)

\* Intent.from_dict: the enum lookups, the constructor, then the state.
intent_from_dict(data, t) ==
    IF data.type \notin IntentType \/ data.state \notin IntentState
    THEN [raised |-> "ValueError", error |-> "enum"]
    ELSE LET i == NewIntent(data.type, data.confidence, data.parameters,
                            data.id, fromisoformat(data.timestamp), t)
         IN  IF i.raised # "none" THEN i
             ELSE [i EXCEPT !.state = data.state]

-----------------------------------------------------------------------------
(* models/conversation_context.py: the states *)

ConversationState == {"ACTIVE", "WAITING_FOR_CLARIFICATION", "COMPLETED",
                      "EXPIRED"}

-----------------------------------------------------------------------------
(* classifiers/intent_classifier.py *)

\* Iteration order of the `classifiers' dict of classify.
classifiers == <<"add_task", "list_tasks", "complete_task", "delete_task",
                 "update_task">>

\* A walk that tries the catch-all first.
priority_order_add_first == <<"add_task", "complete_task", "delete_task",
                              "update_task", "list_tasks">>

priority_order == <<"complete_task", "delete_task", "update_task",
                    "list_tasks", "add_task">>

ClassifierNames == {classifiers[i] : i \in 1..Len(classifiers)}

\* IntentType(best_intent_type.upper())
IntentTypeOf(name) ==
    CASE name = "add_task"      -> "ADD_TASK"
      [] name = "list_tasks"    -> "LIST_TASKS"
      [] name = "complete_task" -> "COMPLETE_TASK"
      [] name = "delete_task"   -> "DELETE_TASK"
      [] name = "update_task"   -> "UPDATE_TASK"

\* The confidences the five per-kind classifiers return for one text.
ConfVectors == [ClassifierNames -> ConfLevels]

\* What the extraction patterns find in a text: the first task number
\* (0: no digits), a due date, a list filter word, a "set priority to ..."
\* update phrase.
TextInputs == [num : 0..MaxTaskNum, due : BOOLEAN,
               filter : {"", "pending"}, upd : BOOLEAN]

\* context_features of a processed input: empty without a conversation
\* context (NLPProcessor.process), else the features of the context.
ContextFeatures ==
    {EmptyDict} \cup
    { [active_tasks_count |-> n, conversation_state |-> s] :
        n \in 0..1, s \in {"ACTIVE", "WAITING_FOR_CLARIFICATION"} }

TaskIdOf(n) == <<"task_", ToString(n)>>

extract_add_task_parameters(text) ==
    LET p1 == [task_content |-> <<"content">>]
    IN  IF text.due THEN Put(p1, "due_date", "date") ELSE p1

extract_list_tasks_parameters(text) ==
    LET p1 == IF text.filter # "" THEN [filter |-> text.filter] ELSE EmptyDict
    IN  IF text.due THEN Put(p1, "sort_by", "due_date") ELSE p1

extract_complete_task_parameters(text) ==
    IF text.num # 0 THEN [task_id |-> TaskIdOf(text.num)] ELSE EmptyDict

extract_delete_task_parameters(text) ==
    IF text.num # 0 THEN [task_id |-> TaskIdOf(text.num)] ELSE EmptyDict

extract_update_task_parameters(text) ==
    LET updates == IF text.upd THEN [priority |-> "high"] ELSE EmptyDict
        p1 == [updates |-> updates]
    IN  IF text.num # 0 THEN Put(p1, "task_id", TaskIdOf(text.num)) ELSE p1

extract_ambiguous_parameters(text) ==
    [original_input |-> text,
     reason |-> "Insufficient confidence in intent classification"]

extract_context_parameters(context_features) ==
    LET p1 == IF "active_tasks_count" \in DOMAIN context_features
                 /\ context_features["active_tasks_count"] > 0
              THEN [context_has_active_tasks |-> TRUE] ELSE EmptyDict
    IN  IF "conversation_state" \in DOMAIN context_features
        THEN Put(p1, "conversation_state", context_features["conversation_state"])
        ELSE p1

\* processed_input always carries the key context_features.
extract_parameters(text, context_features, intent_type) ==
    LET parameters ==
          CASE intent_type = "ADD_TASK"      -> extract_add_task_parameters(text)
            [] intent_type = "LIST_TASKS"    -> extract_list_tasks_parameters(text)
            [] intent_type = "COMPLETE_TASK" -> extract_complete_task_parameters(text)
            [] intent_type = "DELETE_TASK"   -> extract_delete_task_parameters(text)
            [] intent_type = "UPDATE_TASK"   -> extract_update_task_parameters(text)
            [] intent_type = "AMBIGUOUS"     -> extract_ambiguous_parameters(text)
    IN  Update(parameters, extract_context_parameters(context_features))

\* The priority walk: index of the first kind of priority_order whose
\* confidence is at least the threshold, 0 when there is none.
RECURSIVE priority_walk(_, _, _)
priority_walk(confs, th, i) ==
    IF i > Len(priority_order) THEN 0
    ELSE IF confs[priority_order[i]] >= th THEN i
    ELSE priority_walk(confs, th, i + 1)

\* max(specific_confidences, key=specific_confidences.get): the first key
\* in iteration order that has the largest value.
RECURSIVE max_by_confidence(_, _, _)
max_by_confidence(confs, i, best) ==
    IF i > Len(classifiers) THEN best
    ELSE max_by_confidence(confs, i + 1,
            IF confs[classifiers[i]] > confs[best] THEN classifiers[i] ELSE best)

\* The fallback reporting the walk's confidence instead of the best score.
best_intent_walk_confidence(confs, th) ==
    LET i == priority_walk(confs, th, 1)
    IN  IF i = 0 THEN [type |-> "AMBIGUOUS", confidence |-> 0]
        ELSE [type |-> IntentTypeOf(priority_order[i]),
              confidence |-> confs[priority_order[i]]]

\* Lines 78-111: the chosen kind and its confidence.
best_intent(confs, th) ==
    LET i == priority_walk(confs, th, 1)
        walk_type == IF i = 0 THEN "add_task" ELSE priority_order[i]
        walk_confidence == IF i = 0 THEN 0 ELSE confs[priority_order[i]]
    IN  IF walk_confidence < th
        THEN LET overall_best_intent == max_by_confidence(confs, 2, classifiers[1])
                 overall_best_confidence == confs[overall_best_intent]
             IN  IF overall_best_confidence >= th
                 THEN [type |-> IntentTypeOf(overall_best_intent),
                       confidence |-> overall_best_confidence]
                 ELSE [type |-> "AMBIGUOUS",
                       confidence |-> overall_best_confidence]
        ELSE [type |-> IntentTypeOf(walk_type), confidence |-> walk_confidence]

\* IntentClassifier.classify
classify(confs, text, context_features, th) ==
    LET best == best_intent(confs, th)
    IN  Intent(best.type, best.confidence,
               extract_parameters(text, context_features, best.type))

\* Thresholds the constructor can be given (it does not validate).
ThresholdArgs == 0..(MaxConf + 1)

-----------------------------------------------------------------------------
(* models/tool_mapping.py *)

ToolMapping(mcp_tool, required_parameters, optional_parameters) ==
    [mcp_tool |-> mcp_tool, required_parameters |-> required_parameters,
     optional_parameters |-> optional_parameters]

\* A table that lost its DELETE_TASK entry.
PREDEFINED_MAPPINGS_no_delete ==
    [ADD_TASK |-> ToolMapping("add_task", <<"task_content">>,
                              <<"due_date", "priority", "tags">>),
     LIST_TASKS |-> ToolMapping("list_tasks", <<>>,
                              <<"filter", "sort_by", "sort_order", "limit">>),
     COMPLETE_TASK |-> ToolMapping("complete_task", <<"task_id">>, <<>>),
     UPDATE_TASK |-> ToolMapping("update_task", <<"task_id", "updates">>, <<>>)]

PREDEFINED_MAPPINGS ==
    [ADD_TASK |-> ToolMapping("add_task", <<"task_content">>,
                              <<"due_date", "priority", "tags">>),
     LIST_TASKS |-> ToolMapping("list_tasks", <<>>,
                              <<"filter", "sort_by", "sort_order", "limit">>),
     COMPLETE_TASK |-> ToolMapping("complete_task", <<"task_id">>, <<>>),
     DELETE_TASK |-> ToolMapping("delete_task", <<"task_id">>, <<>>),
     UPDATE_TASK |-> ToolMapping("update_task", <<"task_id", "updates">>, <<>>)]

Range(seq) == {seq[i] : i \in 1..Len(seq)}

\* ToolMapping.get_all_parameters
get_all_parameters(mapping) ==
    mapping.required_parameters \o mapping.optional_parameters

\* A validation that only looks at the required parameters.
validate_parameters_required_only(mapping, parameters) ==
    \A i \in 1..Len(mapping.required_parameters) :
        mapping.required_parameters[i] \in DOMAIN parameters

\* ToolMapping.validate_parameters
validate_parameters(mapping, parameters) ==
    /\ \A i \in 1..Len(mapping.required_parameters) :
          mapping.required_parameters[i] \in DOMAIN parameters
    /\ (DOMAIN parameters) \subseteq Range(get_all_parameters(mapping))

\* ToolMapping.requires_tool_chaining
requires_tool_chaining(mapping) == FALSE

-----------------------------------------------------------------------------
(* mappers/tool_mapper.py *)

\* str.strip on a token sequence: blanks go from both ends.
RECURSIVE lstrip(_)
lstrip(s) == IF s # <<>> /\ Head(s) = " " THEN lstrip(Tail(s)) ELSE s

RECURSIVE rstrip(_)
rstrip(s) == IF s # <<>> /\ s[Len(s)] = " "
             THEN rstrip(SubSeq(s, 1, Len(s) - 1)) ELSE s

strip(s) == rstrip(lstrip(s))

\* str.startswith('task_')
startswith_task(s) == s # <<>> /\ Head(s) = "task_"

valid_filters == {"all", "pending", "completed", "overdue"}

\* ToolMapper._prepare_tool_parameters
prepare_tool_parameters(intent) ==
    LET tool_params == intent.parameters
    IN  IF intent.type = "ADD_TASK"
        THEN IF "task_content" \in DOMAIN tool_params
             THEN Put(tool_params, "task_content",
                      strip(tool_params["task_content"]))
             ELSE tool_params
        ELSE IF intent.type \in {"COMPLETE_TASK", "DELETE_TASK"}
        THEN IF "task_id" \in DOMAIN tool_params
                /\ ~startswith_task(tool_params["task_id"])
             THEN Put(tool_params, "task_id",
                      <<"task_">> \o tool_params["task_id"])
             ELSE tool_params
        ELSE IF intent.type = "LIST_TASKS"
        THEN IF "filter" \in DOMAIN tool_params
                /\ tool_params["filter"] \notin valid_filters
             THEN Put(tool_params, "filter", "all")
             ELSE tool_params
        ELSE tool_params

\* A check that stops at the first absent parameter.
missing_params_first_only(mapping, provided_params) ==
    LET all == SelectSeq(mapping.required_parameters,
                         LAMBDA param : param \notin DOMAIN provided_params)
    IN  IF all = <<>> THEN <<>> ELSE <<Head(all)>>

\* The required parameters the intent does not provide, in table order.
missing_params(mapping, provided_params) ==
    SelectSeq(mapping.required_parameters,
              LAMBDA param : param \notin DOMAIN provided_params)

\* ToolMapper.map_intent_to_tool: a ToolMappingResult, or the ValueError
\* raised with the parameter names its message lists.
map_intent_to_tool(table, intent) ==
    IF intent.type \notin DOMAIN table
    THEN [raised |-> "ValueError", error |-> "no_mapping", names |-> {}]
    ELSE LET mapping == table[intent.type]
             missing == missing_params(mapping, intent.parameters)
         IN  IF missing # <<>>
             THEN [raised |-> "ValueError", error |-> "missing_parameters",
                   names |-> Range(missing)]
             ELSE IF ~validate_parameters(mapping, intent.parameters)
             THEN [raised |-> "ValueError", error |-> "invalid_parameters",
                   names |-> (DOMAIN intent.parameters)
                                \ Range(get_all_parameters(mapping))]
             ELSE [raised |-> "none", tool_name |-> mapping.mcp_tool,
                   parameters |-> prepare_tool_parameters(intent),
                   tool_mapping |-> mapping]

-----------------------------------------------------------------------------
(* models/conversation_context.py *)

Turn(text, speaker) == [text |-> text, speaker |-> speaker]

\* A slice that keeps the oldest elements instead of the newest.
SliceFrom_keep_oldest(s, i) ==
    LET n == Len(s)
        k == IF i < 0 THEN (IF -i > n THEN n ELSE -i) ELSE n
    IN  SubSeq(s, 1, k)

\* The python slice s[i:].
SliceFrom(s, i) ==
    LET n == Len(s)
        start == IF i < 0 THEN (IF n + i < 0 THEN 0 ELSE n + i)
                 ELSE (IF i > n THEN n ELSE i)
    IN  SubSeq(s, start + 1, n)

\* ConversationContext._trim_conversation
trim_conversation(ts, mt) ==
    IF Len(ts) > mt THEN SliceFrom(ts, -mt) ELSE ts

\* task_id in self.active_tasks
Contains(list, x) == \E i \in DOMAIN list : list[i] = x

\* ConversationContext.add_active_task
add_active_task(list, task_id) ==
    IF ~Contains(list, task_id) THEN Append(list, task_id) ELSE list

\* list.remove: the first occurrence goes.
remove_first(list, x) ==
    LET k == CHOOSE i \in DOMAIN list :
                 list[i] = x /\ \A j \in 1..(i - 1) : list[j] # x
    IN  SubSeq(list, 1, k - 1) \o SubSeq(list, k + 1, Len(list))

\* ConversationContext.remove_active_task
remove_active_task(list, task_id) ==
    IF Contains(list, task_id) THEN remove_first(list, task_id) ELSE list

\* add_user_turn / add_agent_turn: append, then trim.
add_turn(ts, mt, text, speaker) ==
    trim_conversation(Append(ts, Turn(text, speaker)), mt)

-----------------------------------------------------------------------------
(* interfaces/mcp_tool_interface.py *)

\* A failure result: success, the error code and a message for the user.
Result(success, error) ==
    [success |-> success, error |-> error, message |-> "text"]

Task(id, content, due_date, priority) ==
    [id |-> id, content |-> content, status |-> "pending",
     due_date |-> due_date, priority |-> priority]

Get(d, k, default) == IF k \in DOMAIN d THEN d[k] ELSE default

Unchanged(store, nid, result) ==
    [task_store |-> store, next_task_id |-> nid, result |-> result]

\* MCPTOOLInterface._execute_add_task
execute_add_task(store, nid, parameters) ==
    IF "task_content" \notin DOMAIN parameters
    THEN Unchanged(store, nid,
            Result(FALSE, "Missing required parameter: task_content"))
    ELSE LET task_id == TaskIdOf(nid)
             task == Task(task_id, parameters["task_content"],
                          Get(parameters, "due_date", "None"),
                          Get(parameters, "priority", "medium"))
         IN  [task_store |-> Put(store, task_id, task),
              next_task_id |-> nid + 1,
              result |-> [success |-> TRUE, task_id |-> task_id]]

\* The default of the limit parameter of list_tasks.
ListDefaultLimit == 50

\* The values a limit parameter can hold: an int, or a str, which a slice
\* does not take.
PyInt(n) == [int |-> n]
PyStr(text) == [str |-> text]

\* list(self._task_store.values()): a dict keeps insertion order, a task is
\* inserted once under the next counter value and afterwards only changed in
\* place, so the values come in the order of their numbers.
store_values(store, nid) ==
    SelectSeq([n \in 1..(nid - 1) |-> TaskIdOf(n)],
              LAMBDA id : id \in DOMAIN store)

Reverse(s) == [i \in 1..Len(s) |-> s[Len(s) + 1 - i]]

\* The sort keys of due_date and priority. The due dates of the model are
\* the empty one and one date, so the string order is 0 < 1.
sort_key(task, sort_by) ==
    IF sort_by = "due_date"
    THEN (IF task.due_date = "None" THEN 0 ELSE 1)
    ELSE CASE task.priority = "high"   -> 3
           [] task.priority = "medium" -> 2
           [] task.priority = "low"    -> 1
           [] OTHER                    -> 0

\* list.sort(key=..., reverse=...): stable, equal keys keep their order in
\* both directions. created_at grows with the task number.
sort_tasks(store, ids, sort_by, sort_order) ==
    LET level(k) == SelectSeq(ids, LAMBDA id : sort_key(store[id], sort_by) = k)
    IN  IF sort_by \in {"due_date", "priority"}
        THEN (IF sort_order = "desc"
              THEN level(3) \o level(2) \o level(1) \o level(0)
              ELSE level(0) \o level(1) \o level(2) \o level(3))
        ELSE (IF sort_order = "desc" THEN Reverse(ids) ELSE ids)

\* The python slice s[:limit] for an integer limit.
SliceTo(s, limit) ==
    LET n == Len(s)
        stop == IF limit < 0 THEN (IF n + limit < 0 THEN 0 ELSE n + limit)
                ELSE (IF limit > n THEN n ELSE limit)
    IN  SubSeq(s, 1, stop)

\* MCPTOOLInterface._execute_list_tasks (_is_overdue is the stub: FALSE).
\* A limit that is no integer makes the slice raise TypeError, which
\* execute_tool catches and turns into a failure result.
execute_list_tasks(store, nid, parameters) ==
    LET filter_type == Get(parameters, "filter", "all")
        sort_by == Get(parameters, "sort_by", "created_at")
        sort_order == Get(parameters, "sort_order", "asc")
        limit == Get(parameters, "limit", PyInt(ListDefaultLimit))
        filtered_tasks ==
          SelectSeq(store_values(store, nid), LAMBDA id :
              CASE filter_type = "pending"   -> store[id].status = "pending"
                [] filter_type = "completed" -> store[id].status = "completed"
                [] filter_type = "overdue"   -> FALSE
                [] OTHER                     -> TRUE)
        sorted_tasks == sort_tasks(store, filtered_tasks, sort_by, sort_order)
    IN  IF "int" \notin DOMAIN limit
        THEN Unchanged(store, nid, Result(FALSE, "TypeError"))
        ELSE Unchanged(store, nid,
                [success |-> TRUE, tasks |-> SliceTo(sorted_tasks, limit.int),
                 total_count |-> Len(filtered_tasks)])

\* The checks complete, delete and update share: the id is given and known.
task_id_error(store, parameters) ==
    IF "task_id" \notin DOMAIN parameters \/ parameters["task_id"] = <<>>
    THEN "Missing required parameter: task_id"
    ELSE IF parameters["task_id"] \notin DOMAIN store
    THEN "TASK_NOT_FOUND"
    ELSE "none"

\* MCPTOOLInterface._execute_complete_task
execute_complete_task(store, nid, parameters) ==
    LET err == task_id_error(store, parameters)
    IN  IF err # "none" THEN Unchanged(store, nid, Result(FALSE, err))
        ELSE LET task_id == parameters["task_id"]
             IN  [task_store |-> Put(store, task_id,
                                     Put(store[task_id], "status", "completed")),
                  next_task_id |-> nid,
                  result |-> [success |-> TRUE, task_id |-> task_id]]

\* MCPTOOLInterface._execute_delete_task
execute_delete_task(store, nid, parameters) ==
    LET err == task_id_error(store, parameters)
    IN  IF err # "none" THEN Unchanged(store, nid, Result(FALSE, err))
        ELSE LET task_id == parameters["task_id"]
             IN  [task_store |-> [id \in (DOMAIN store) \ {task_id} |-> store[id]],
                  next_task_id |-> nid,
                  result |-> [success |-> TRUE, task_id |-> task_id]]

\* MCPTOOLInterface._execute_update_task
execute_update_task(store, nid, parameters) ==
    LET err == task_id_error(store, parameters)
        updates == Get(parameters, "updates", EmptyDict)
    IN  IF err # "none" THEN Unchanged(store, nid, Result(FALSE, err))
        ELSE IF updates = EmptyDict
        THEN Unchanged(store, nid, Result(FALSE, "No updates provided"))
        ELSE LET task_id == parameters["task_id"]
                 task == store[task_id]
                 updated_fields == (DOMAIN updates) \cap (DOMAIN task)
                 new_task == [f \in DOMAIN task |->
                                IF f \in updated_fields THEN updates[f]
                                ELSE task[f]]
             IN  [task_store |-> Put(store, task_id, new_task),
                  next_task_id |-> nid,
                  result |-> [success |-> TRUE, task_id |-> task_id,
                              updated_fields |-> updated_fields]]

\* MCPTOOLInterface.execute_tool
execute_tool(tool_name, parameters, store, nid) ==
    CASE tool_name = "add_task"      -> execute_add_task(store, nid, parameters)
      [] tool_name = "list_tasks"    -> execute_list_tasks(store, nid, parameters)
      [] tool_name = "complete_task" -> execute_complete_task(store, nid, parameters)
      [] tool_name = "delete_task"   -> execute_delete_task(store, nid, parameters)
      [] tool_name = "update_task"   -> execute_update_task(store, nid, parameters)
      [] OTHER -> Unchanged(store, nid, Result(FALSE, "Unknown tool"))

-----------------------------------------------------------------------------
(* coordinators/tool_chain_coordinator.py *)

\* The limits the coordinator passes to list_tasks: the context listing of
\* execute_chain, the default of list_then_act, the existence check.
ChainContextLimit == 10
ListThenActDefaultLimit == 10
ValidateLimit == 100

\* What a chain leaves behind: the store, the counter, the returned result
\* and the calls it made to MCPTOOLInterface.execute_tool, in order, each
\* with what it returned.
ChainRun(store, nid, result, calls) ==
    [task_store |-> store, next_task_id |-> nid, result |-> result,
     calls |-> calls]

ToolCall(tool_name, parameters, result) ==
    [tool_name |-> tool_name, parameters |-> parameters, result |-> result]

\* ToolChainCoordinator._needs_task_listing
needs_task_listing(tool_mapping) == FALSE

\* ToolChainCoordinator._execute_directly: no call to execute_tool.
execute_directly(tool_mapping, store, nid) ==
    ChainRun(store, nid, Result(FALSE, "NOT_IMPLEMENTED"), <<>>)

\* ToolChainCoordinator._execute_with_context
execute_with_context(tool_mapping, context_result, store, nid) ==
    execute_directly(tool_mapping, store, nid)

\* ToolChainCoordinator.execute_chain
execute_chain(tool_mapping, store, nid) ==
    IF needs_task_listing(tool_mapping)
    THEN LET list_params == [filter |-> "all", limit |-> PyInt(ChainContextLimit)]
             list_run == execute_tool("list_tasks", list_params, store, nid)
             list_call == <<ToolCall("list_tasks", list_params, list_run.result)>>
         IN  IF ~list_run.result.success
             THEN ChainRun(store, nid, list_run.result, list_call)
             ELSE LET run == execute_with_context(tool_mapping, list_run.result,
                                                  store, nid)
                  IN  ChainRun(run.task_store, run.next_task_id, run.result,
                               list_call \o run.calls)
    ELSE execute_directly(tool_mapping, store, nid)

\* ToolChainCoordinator._execute_list_then_act_chain with the action run
\* before the list result is looked at.
execute_list_then_act_chain_act_first(parameters, store, nid) ==
    LET list_params == [filter |-> Get(parameters, "filter", "all"),
                        limit |-> Get(parameters, "limit",
                                      PyInt(ListThenActDefaultLimit))]
        list_run == execute_tool("list_tasks", list_params, store, nid)
        list_call == <<ToolCall("list_tasks", list_params, list_run.result)>>
        action_tool == Get(parameters, "action_tool", "")
        action_params == Get(parameters, "action_params", EmptyDict)
        action_run == execute_tool(action_tool, action_params, store, nid)
    IN  IF action_tool = ""
        THEN ChainRun(store, nid, Result(FALSE, "MISSING_ACTION_TOOL"),
                      list_call)
        ELSE ChainRun(action_run.task_store, action_run.next_task_id,
                      IF ~list_run.result.success THEN list_run.result
                      ELSE [success |-> action_run.result.success,
                            list_result |-> list_run.result,
                            action_result |-> action_run.result],
                      list_call \o <<ToolCall(action_tool, action_params,
                                                 action_run.result)>>)

\* ToolChainCoordinator._execute_list_then_act_chain
execute_list_then_act_chain(parameters, store, nid) ==
    LET list_params == [filter |-> Get(parameters, "filter", "all"),
                        limit |-> Get(parameters, "limit",
                                      PyInt(ListThenActDefaultLimit))]
        list_run == execute_tool("list_tasks", list_params, store, nid)
        list_call == <<ToolCall("list_tasks", list_params, list_run.result)>>
        action_tool == Get(parameters, "action_tool", "")
        action_params == Get(parameters, "action_params", EmptyDict)
    IN  IF ~list_run.result.success
        THEN ChainRun(store, nid, list_run.result, list_call)
        ELSE IF action_tool = ""
        THEN ChainRun(store, nid, Result(FALSE, "MISSING_ACTION_TOOL"),
                      list_call)
        ELSE LET action_run == execute_tool(action_tool, action_params,
                                            store, nid)
             IN  ChainRun(action_run.task_store, action_run.next_task_id,
                          [success |-> action_run.result.success,
                           list_result |-> list_run.result,
                           action_result |-> action_run.result],
                          list_call \o <<ToolCall(action_tool, action_params,
                                                 action_run.result)>>)

\* ToolChainCoordinator._execute_validate_then_update_chain; the absent and
\* the empty task_id are both falsy.
execute_validate_then_update_chain(parameters, store, nid) ==
    LET task_id == Get(parameters, "task_id", <<>>)
        updates == Get(parameters, "updates", EmptyDict)
        list_params == [filter |-> "all", limit |-> PyInt(ValidateLimit)]
        list_run == execute_tool("list_tasks", list_params, store, nid)
        list_call == <<ToolCall("list_tasks", list_params, list_run.result)>>
    IN  IF task_id = <<>>
        THEN ChainRun(store, nid, Result(FALSE, "MISSING_TASK_ID"), <<>>)
        ELSE IF ~list_run.result.success
        THEN ChainRun(store, nid, list_run.result, list_call)
        ELSE IF ~\E i \in DOMAIN list_run.result.tasks :
                    store[list_run.result.tasks[i]].id = task_id
        THEN ChainRun(store, nid, Result(FALSE, "TASK_NOT_FOUND"), list_call)
        ELSE LET update_params == [task_id |-> task_id, updates |-> updates]
                 update_run == execute_tool("update_task", update_params,
                                            store, nid)
             IN  ChainRun(update_run.task_store, update_run.next_task_id,
                          update_run.result,
                          list_call \o <<ToolCall("update_task", update_params,
                                                 update_run.result)>>)

\* ToolChainCoordinator.execute_specific_chain
execute_specific_chain(chain_type, parameters, store, nid) ==
    CASE chain_type = "list_then_act" ->
           execute_list_then_act_chain(parameters, store, nid)
      [] chain_type = "validate_then_update" ->
           execute_validate_then_update_chain(parameters, store, nid)
      [] OTHER ->
           ChainRun(store, nid, Result(FALSE, "UNKNOWN_CHAIN_TYPE"), <<>>)

-----------------------------------------------------------------------------
(* managers/conversation_manager.py *)

\* The expiry window of is_expired, in seconds.
ExpirySeconds == 3600

\* What a fetch returns when there is no context to return (None).
NoContext == [none |-> TRUE]

\* A Turn with the timestamp its constructor reads from the clock.
TimedTurn(text, speaker, timestamp) ==
    [text |-> text, speaker |-> speaker, timestamp |-> timestamp]

\* The None of an absent last_intent.
NoIntent == [none |-> TRUE]

\* ConversationContext.__init__ at clock time t, all the fields.
NewContext(conversation_id, mt, t) ==
    [conversation_id |-> conversation_id, turns |-> <<>>,
     active_tasks |-> <<>>, last_intent |-> NoIntent, summary |-> "None",
     state |-> "ACTIVE", max_turns |-> mt, created_at |-> t]

\* Turn.to_dict
turn_to_dict(turn) ==
    [text |-> turn.text, speaker |-> turn.speaker,
     timestamp |-> isoformat(turn.timestamp)]

\* ConversationContext.to_dict
context_to_dict(c) ==
    [conversation_id |-> c.conversation_id,
     turns |-> [i \in DOMAIN c.turns |-> turn_to_dict(c.turns[i])],
     active_tasks |-> c.active_tasks,
     last_intent |-> IF c.last_intent = NoIntent THEN NoIntent
                     ELSE intent_to_dict(c.last_intent),
     summary |-> c.summary,
     state |-> c.state,
     max_turns |-> c.max_turns,
     created_at |-> isoformat(c.created_at)]

\* ConversationContext.from_dict at clock time t: the constructor, the
\* turns appended one by one (no trim), then the other attributes.
context_from_dict(data, t) ==
    LET context == NewContext(data.conversation_id, data.max_turns, t)
        restored == [i \in DOMAIN data.turns |->
                        TimedTurn(data.turns[i].text, data.turns[i].speaker,
                                  fromisoformat(data.turns[i].timestamp))]
        last == IF data.last_intent = NoIntent THEN NoIntent
                ELSE intent_from_dict(data.last_intent, t)
    IN  IF data.state \notin ConversationState
        THEN [raised |-> "ValueError", error |-> "enum"]
        ELSE IF last # NoIntent /\ last.raised # "none" THEN last
        ELSE [conversation_id |-> context.conversation_id,
              turns |-> context.turns \o restored,
              active_tasks |-> data.active_tasks,
              last_intent |-> last,
              summary |-> data.summary,
              state |-> data.state,
              max_turns |-> context.max_turns,
              created_at |-> fromisoformat(data.created_at)]

\* An expiry that counts from the last turn instead of the creation.
is_expired_since_last_turn(context, t) ==
    LET last == IF context.turns = <<>> THEN context.created_at
                ELSE context.turns[Len(context.turns)].timestamp
    IN  t - last > ExpirySeconds

\* ConversationContext.is_expired at clock time t
is_expired(context, t) == t - context.created_at > ExpirySeconds

\* A sweep that stops after the first expired entry it meets.
cleanup_expired_conversations_first_only(convs, t) ==
    LET expired_ids == {id \in DOMAIN convs : is_expired(convs[id], t)}
        first == IF expired_ids = {} THEN {}
                 ELSE {CHOOSE id \in expired_ids : TRUE}
    IN  [conversations |-> [id \in (DOMAIN convs) \ first |-> convs[id]],
         ret |-> Cardinality(first)]

\* ConversationManager.cleanup_expired_conversations
cleanup_expired_conversations(convs, t) ==
    LET expired_ids == {id \in DOMAIN convs : is_expired(convs[id], t)}
    IN  [conversations |-> [id \in (DOMAIN convs) \ expired_ids |-> convs[id]],
         ret |-> Cardinality(expired_ids)]

\* ConversationManager.get_conversation
get_conversation(convs, conversation_id, t) ==
    IF conversation_id \in DOMAIN convs
    THEN IF is_expired(convs[conversation_id], t)
         THEN LET swept == cleanup_expired_conversations(convs, t).conversations
              IN  [conversations |-> swept,
                   ret |-> Get(swept, conversation_id, NoContext)]
         ELSE [conversations |-> convs, ret |-> convs[conversation_id]]
    ELSE [conversations |-> convs, ret |-> NoContext]

\* ConversationManager.create_conversation
create_conversation(convs, conversation_id, mt, t) ==
    LET context == NewContext(conversation_id, mt, t)
    IN  [conversations |-> Put(convs, conversation_id, context), ret |-> context]

\* ConversationManager.update_conversation
update_conversation(convs, context) ==
    Put(convs, context.conversation_id, context)

\* ConversationManager.delete_conversation
delete_conversation(convs, conversation_id) ==
    IF conversation_id \in DOMAIN convs
    THEN [conversations |-> [id \in (DOMAIN convs) \ {conversation_id} |-> convs[id]],
          ret |-> TRUE]
    ELSE [conversations |-> convs, ret |-> FALSE]

\* ConversationManager.clear_all_conversations
clear_all_conversations(convs) ==
    [conversations |-> EmptyDict, ret |-> Cardinality(DOMAIN convs)]

\* ConversationManager.get_active_conversations_count
get_active_conversations_count(convs, t) ==
    LET swept == cleanup_expired_conversations(convs, t).conversations
    IN  [conversations |-> swept, ret |-> Cardinality(DOMAIN swept)]

\* get_or_create_conversation with an id given
get_or_create_conversation(convs, conversation_id, mt, t) ==
    LET got == get_conversation(convs, conversation_id, t)
    IN  IF got.ret # NoContext THEN got
        ELSE create_conversation(got.conversations, conversation_id, mt, t)

-----------------------------------------------------------------------------
(* models/response_template.py, formatters/response_formatter.py *)

\* PREDEFINED_TEMPLATES: the action type and the placeholders of each key.
PREDEFINED_TEMPLATES ==
    [add_task_success |-> [action_type |-> "SUCCESS", placeholders |-> {"task_content"}],
     list_tasks_success |-> [action_type |-> "SUCCESS", placeholders |-> {"task_list"}],
     complete_task_success |-> [action_type |-> "SUCCESS", placeholders |-> {"task_id"}],
     delete_task_success |-> [action_type |-> "SUCCESS", placeholders |-> {"task_id"}],
     update_task_success |-> [action_type |-> "SUCCESS", placeholders |-> {"task_id"}],
     task_not_found_error |-> [action_type |-> "ERROR", placeholders |-> {}],
     invalid_parameter_error |-> [action_type |-> "ERROR", placeholders |-> {"error_details"}],
     tool_execution_error |-> [action_type |-> "ERROR", placeholders |-> {}],
     clarification_request |-> [action_type |-> "CLARIFICATION",
                                placeholders |-> {"aspect", "action"}]]

\* f"{intent.type.value.lower()}_success"
success_key(intent_type) ==
    CASE intent_type = "ADD_TASK"      -> "add_task_success"
      [] intent_type = "LIST_TASKS"    -> "list_tasks_success"
      [] intent_type = "COMPLETE_TASK" -> "complete_task_success"
      [] intent_type = "DELETE_TASK"   -> "delete_task_success"
      [] intent_type = "UPDATE_TASK"   -> "update_task_success"
      [] intent_type = "AMBIGUOUS"     -> "ambiguous_success"

\* ResponseTemplate.format: the text of the template with its placeholders
\* filled, or the ValueError it raises when one is not supplied.
template_format(key, params) ==
    IF PREDEFINED_TEMPLATES[key].placeholders \subseteq DOMAIN params
    THEN [raised |-> "none", action_type |-> PREDEFINED_TEMPLATES[key].action_type,
          template |-> key,
          values |-> [x \in PREDEFINED_TEMPLATES[key].placeholders |-> params[x]]]
    ELSE [raised |-> "ValueError", error |-> "placeholder"]

\* ResponseFormatter._prepare_success_params
prepare_success_params(intent, result) ==
    LET params ==
          IF intent.type = "ADD_TASK"
          THEN [task_content |-> Get(intent.parameters, "task_content",
                                     <<"unknown task">>)]
          ELSE IF intent.type = "LIST_TASKS"
          THEN [task_list |-> Get(result, "tasks", <<>>)]
          ELSE IF intent.type \in {"COMPLETE_TASK", "DELETE_TASK", "UPDATE_TASK"}
          THEN [task_id |-> Get(intent.parameters, "task_id", <<"unknown">>)]
          ELSE EmptyDict
    IN  Update(params, result)

\* ResponseFormatter.format_success: the except clause names KeyError, the
\* template raises ValueError, which therefore passes through.
format_success(intent, result) ==
    IF success_key(intent.type) \in DOMAIN PREDEFINED_TEMPLATES
    THEN template_format(success_key(intent.type),
                         prepare_success_params(intent, result))
    ELSE [raised |-> "none", action_type |-> "GENERIC",
          template |-> "Action completed", values |-> [action |-> intent.type]]

\* ResponseFormatter.format_clarification_request
format_clarification_request(intent, user_input) ==
    LET action == IF intent.type = "AMBIGUOUS" THEN "handle" ELSE intent.type
        r == template_format("clarification_request",
                             [aspect |-> "your request", action |-> action])
    IN  IF r.raised = "none" THEN r
        ELSE [raised |-> "ValueError", error |-> "placeholder"]

-----------------------------------------------------------------------------
(* agents/todo_chatbot_agent.py *)

\* TodoChatbotAgent._execute_tool, the definition in force (the second one
\* of the class body): map, execute, format_success; nothing is caught.
agent_execute_tool(table, intent, store, nid) ==
    LET tool_mapping == map_intent_to_tool(table, intent)
    IN  IF tool_mapping.raised # "none"
        THEN [raised |-> "ValueError", error |-> tool_mapping.error,
              mapper_called |-> TRUE, tool_called |-> FALSE,
              tool_calls |-> <<>>,
              result |-> EmptyDict, task_store |-> store, next_task_id |-> nid]
        ELSE LET exec ==
                   IF requires_tool_chaining(tool_mapping.tool_mapping)
                   THEN execute_chain(tool_mapping.tool_mapping, store, nid)
                   ELSE execute_tool(tool_mapping.tool_name,
                                     tool_mapping.parameters, store, nid)
                 response == format_success(intent, exec.result)
             IN  [raised |-> response.raised, response |-> response,
                  mapper_called |-> TRUE, tool_called |-> TRUE,
                  tool_calls |->
                    IF requires_tool_chaining(tool_mapping.tool_mapping)
                    THEN exec.calls
                    ELSE <<ToolCall(tool_mapping.tool_name,
                                    tool_mapping.parameters, exec.result)>>,
                  result |-> exec.result, task_store |-> exec.task_store,
                  next_task_id |-> exec.next_task_id]

\* TodoChatbotAgent.process_input after add_user_turn: identify the intent,
\* then execute or ask for clarification.
agent_respond(table, confs, text, th, agent_th, store, nid) ==
    LET intent == classify(confs, text, EmptyDict, th)
    IN  IF intent.confidence >= agent_th
        THEN [intent |-> intent] @@ agent_execute_tool(table, intent, store, nid)
        ELSE LET response == format_clarification_request(intent, text)
             IN  [intent |-> intent, raised |-> response.raised,
                  response |-> response, mapper_called |-> FALSE,
                  tool_called |-> FALSE, tool_calls |-> <<>>,
                  result |-> EmptyDict,
                  task_store |-> store, next_task_id |-> nid]

-----------------------------------------------------------------------------
(* Specification of the classifier: construct, classify, set_threshold *)

\* The filter word is read by the list_tasks extractor only and the update
\* phrase by the update_task extractor only; no extractor reads both, so
\* the two vary together here and every extractor still sees each
\* combination of the features it reads.
ClassifierInputs ==
    { i \in [confs : ConfVectors, text : TextInputs,
             context_features : ContextFeatures] :
        i.text.upd = (i.text.filter # "") }

InitBase ==
    /\ confidence_threshold = MaxConf
    /\ turns = <<>>
    /\ max_turns = MaxTurnsBound
    /\ state = "ACTIVE"
    /\ active_tasks = <<>>
    /\ last_intent = "None"
    /\ appended = <<>>
    /\ task_store = EmptyDict
    /\ next_task_id = 1
    /\ mappings = PREDEFINED_MAPPINGS
    /\ call = NoCall
    /\ InitAux

InitClassifier ==
    /\ threshold \in ThresholdArgs
    /\ input \in ClassifierInputs
    /\ InitBase

Classify ==
    /\ call' = [op |-> "classify", threshold |-> threshold,
                ret |-> classify(input.confs, input.text,
                                 input.context_features, threshold)]
    /\ UNCHANGED <<threshold, confidence_threshold, ctxVars, storeVars,
                   mappings, input>>
    /\ UNCHANGED auxVars

\* IntentClassifier.set_threshold
SetThreshold ==
    /\ \E t \in (-1)..(MaxConf + 1) :
          IF ~(0 <= t /\ t <= MaxConf)
          THEN /\ call' = [op |-> "set_threshold", raised |-> "ValueError"]
               /\ UNCHANGED threshold
          ELSE /\ call' = [op |-> "set_threshold", raised |-> "none"]
               /\ threshold' = t
    /\ UNCHANGED <<confidence_threshold, ctxVars, storeVars, mappings, input>>
    /\ UNCHANGED auxVars

NextClassifier == Classify \/ SetThreshold

SpecClassifier == InitClassifier /\ [][NextClassifier]_vars

-----------------------------------------------------------------------------
(* Specification of the mapper: an intent arrives, map_intent_to_tool *)

\* The parameter keys an intent can carry: the ten the table declares and
\* two the classifier adds on its own.
ParamKeys == <<"task_content", "due_date", "priority", "tags", "filter",
               "sort_by", "sort_order", "limit", "task_id", "updates",
               "original_input", "conversation_state">>

ParamValues(k) ==
    CASE k = "task_content" -> {<<" ", "milk", " ">>, <<"milk">>}
      [] k = "task_id"      -> {<<"task_", "1">>, <<"1">>, <<"abc">>}
      [] k = "filter"       -> {"pending", "bogus"}
      [] k = "updates"      -> {EmptyDict, [priority |-> "high"]}
      [] OTHER              -> {"value"}

RECURSIVE DictsOver(_)
DictsOver(keys) ==
    IF keys = <<>> THEN {EmptyDict}
    ELSE LET rest == DictsOver(Tail(keys))
         IN  rest \cup {Put(d, Head(keys), v) : d \in rest,
                                                  v \in ParamValues(Head(keys))}

MapperInputs ==
    {Intent(t, MaxConf, p) : t \in IntentType, p \in DictsOver(ParamKeys)}

InitMapper ==
    /\ threshold = MaxConf
    /\ input \in MapperInputs
    /\ InitBase

MapIntentToTool ==
    /\ call' = [op |-> "map_intent_to_tool",
                ret |-> map_intent_to_tool(mappings, input)]
    /\ UNCHANGED <<threshold, confidence_threshold, ctxVars, storeVars,
                   mappings, input>>
    /\ UNCHANGED auxVars

NextMapper == MapIntentToTool

SpecMapper == InitMapper /\ [][NextMapper]_vars

-----------------------------------------------------------------------------
(* Specification of one conversation context *)

Texts == {"a", "b"}

\* The task ids a caller marks active.
TaskIds == {TaskIdOf(1), TaskIdOf(2)}

Speakers == {"user", "agent"}

RECURSIVE SeqsUpTo(_, _)
SeqsUpTo(S, n) ==
    IF n = 0 THEN {<<>>}
    ELSE LET shorter == SeqsUpTo(S, n - 1)
         IN  shorter \cup {Append(q, x) : q \in {r \in shorter : Len(r) = n - 1},
                                          x \in S}

\* The nested maps from_dict is given: any turn list, state and window.
ContextDicts ==
    [turns : SeqsUpTo({Turn(t, sp) : t \in Texts, sp \in Speakers}, 2),
     active_tasks : SeqsUpTo(TaskIds, 2),
     state : ConversationState,
     max_turns : 0..MaxTurnsBound]

\* ConversationContext.__init__ with a window of the caller's choice.
InitContext ==
    /\ threshold = MaxConf
    /\ confidence_threshold = MaxConf
    /\ turns = <<>>
    /\ max_turns \in 0..MaxTurnsBound
    /\ state = "ACTIVE"
    /\ active_tasks = <<>>
    /\ last_intent = "None"
    /\ appended = <<>>
    /\ task_store = EmptyDict
    /\ next_task_id = 1
    /\ mappings = PREDEFINED_MAPPINGS
    /\ input = "None"
    /\ call = NoCall
    /\ InitAux

AddTurn(speaker, op) ==
    /\ Len(appended) < MaxAppends
    /\ \E text \in Texts :
          /\ turns' = add_turn(turns, max_turns, text, speaker)
          /\ appended' = Append(appended, Turn(text, speaker))
    /\ call' = [op |-> op]
    /\ UNCHANGED <<threshold, confidence_threshold, max_turns, state,
                   active_tasks, last_intent, storeVars, mappings, input>>
    /\ UNCHANGED auxVars

\* ConversationContext.add_user_turn
AddUserTurn == AddTurn("user", "add_user_turn")

\* ConversationContext.add_agent_turn
AddAgentTurn == AddTurn("agent", "add_agent_turn")

\* ConversationContext.set_state
SetState ==
    /\ \E s \in ConversationState : state' = s
    /\ call' = [op |-> "set_state"]
    /\ UNCHANGED <<threshold, confidence_threshold, turns, max_turns,
                   active_tasks, last_intent, appended, storeVars, mappings,
                   input>>
    /\ UNCHANGED auxVars

\* ConversationContext.from_dict, the other way a context comes to be.
FromDict ==
    /\ call = NoCall
    /\ \E data \in ContextDicts :
          /\ turns' = data.turns
          /\ appended' = data.turns
          /\ active_tasks' = data.active_tasks
          /\ state' = data.state
          /\ max_turns' = data.max_turns
    /\ call' = [op |-> "from_dict"]
    /\ UNCHANGED <<threshold, confidence_threshold, last_intent,
                   storeVars, mappings, input>>
    /\ UNCHANGED auxVars

\* ConversationContext.add_active_task
AddActiveTask ==
    /\ \E task_id \in TaskIds :
          /\ active_tasks' = add_active_task(active_tasks, task_id)
          /\ call' = [op |-> "add_active_task", task_id |-> task_id,
                      before |-> active_tasks]
    /\ UNCHANGED <<threshold, confidence_threshold, turns, max_turns, state,
                   last_intent, appended, storeVars, mappings, input>>
    /\ UNCHANGED auxVars

\* ConversationContext.remove_active_task
RemoveActiveTask ==
    /\ \E task_id \in TaskIds :
          /\ active_tasks' = remove_active_task(active_tasks, task_id)
          /\ call' = [op |-> "remove_active_task", task_id |-> task_id,
                      before |-> active_tasks]
    /\ UNCHANGED <<threshold, confidence_threshold, turns, max_turns, state,
                   last_intent, appended, storeVars, mappings, input>>
    /\ UNCHANGED auxVars

NextContext ==
    \/ AddUserTurn
    \/ AddAgentTurn
    \/ SetState
    \/ FromDict
    \/ AddActiveTask
    \/ RemoveActiveTask

SpecContext == InitContext /\ [][NextContext]_vars

-----------------------------------------------------------------------------
(* Specification of the agent: process_input on one conversation context, *)
(* with the classifier's threshold open to set_threshold                  *)

\* Texts on which one classifier at most scores.
SingleKindConfs ==
    {confs \in ConfVectors :
        Cardinality({k \in ClassifierNames : confs[k] > 0}) <= 1}

AgentInputs == [confs : SingleKindConfs,
                text : {t \in TextInputs : ~t.due /\ t.filter = ""}]

\* TodoChatbotAgent.__init__ hands its threshold to the classifier.
InitAgent ==
    /\ confidence_threshold \in ThresholdArgs
    /\ threshold = confidence_threshold
    /\ turns = <<>>
    /\ max_turns = MaxTurnsBound
    /\ state = "ACTIVE"
    /\ active_tasks = <<>>
    /\ last_intent = "None"
    /\ appended = <<>>
    /\ task_store = EmptyDict
    /\ next_task_id = 1
    /\ mappings = PREDEFINED_MAPPINGS
    /\ input = "None"
    /\ call = NoCall
    /\ InitAux

\* TodoChatbotAgent.process_input
ProcessInput ==
    /\ Len(appended) + 2 <= MaxAppends
    /\ \E inp \in AgentInputs :
        \E out \in {agent_respond(mappings, inp.confs, inp.text, threshold,
                                  confidence_threshold, task_store,
                                  next_task_id)} :
          LET user_turn == Turn(inp.text, "user")
              turns1 == add_turn(turns, max_turns, inp.text, "user")
          IN  /\ out.next_task_id <= MaxTasks + 1
              /\ input' = inp
              /\ task_store' = out.task_store
              /\ next_task_id' = out.next_task_id
              /\ IF out.raised # "none"
                 THEN /\ turns' = turns1
                      /\ appended' = Append(appended, user_turn)
                      /\ call' = [op |-> "process_input", raised |-> out.raised,
                                  intent |-> out.intent,
                                  mapper_called |-> out.mapper_called,
                                  tool_called |-> out.tool_called,
                                  tool_calls |-> out.tool_calls,
                                  result |-> out.result]
                 ELSE /\ turns' = add_turn(turns1, max_turns, out.response, "agent")
                      /\ appended' = Append(Append(appended, user_turn),
                                            Turn(out.response, "agent"))
                      /\ call' = [op |-> "process_input", raised |-> "none",
                                  intent |-> out.intent,
                                  mapper_called |-> out.mapper_called,
                                  tool_called |-> out.tool_called,
                                  tool_calls |-> out.tool_calls,
                                  result |-> out.result,
                                  response |-> out.response]
    /\ UNCHANGED <<threshold, confidence_threshold, max_turns, state,
                   active_tasks, last_intent, mappings>>
    /\ UNCHANGED auxVars

\* agent.intent_classifier.set_threshold
AgentSetThreshold ==
    /\ \E t \in (-1)..(MaxConf + 1) :
          IF ~(0 <= t /\ t <= MaxConf)
          THEN /\ call' = [op |-> "set_threshold", raised |-> "ValueError"]
               /\ UNCHANGED threshold
          ELSE /\ call' = [op |-> "set_threshold", raised |-> "none"]
               /\ threshold' = t
    /\ UNCHANGED <<confidence_threshold, ctxVars, storeVars, mappings, input>>
    /\ UNCHANGED auxVars

NextAgent == ProcessInput \/ AgentSetThreshold

SpecAgent == InitAgent /\ [][NextAgent]_vars

-----------------------------------------------------------------------------
(* Properties of classify *)

\* The fixed order of the intent kinds, with the classifier each kind's
\* confidence comes from.
KindOrder == <<"COMPLETE_TASK", "DELETE_TASK", "UPDATE_TASK", "LIST_TASKS",
               "ADD_TASK">>

ConfOf(confs, kind) ==
    CASE kind = "COMPLETE_TASK" -> confs["complete_task"]
      [] kind = "DELETE_TASK"   -> confs["delete_task"]
      [] kind = "UPDATE_TASK"   -> confs["update_task"]
      [] kind = "LIST_TASKS"    -> confs["list_tasks"]
      [] kind = "ADD_TASK"      -> confs["add_task"]

Classified == call.op = "classify" /\ call.ret.raised = "none"

NoneClears == \A i \in 1..5 : ConfOf(input.confs, KindOrder[i]) < call.threshold

BestScore ==
    CHOOSE c \in ConfLevels :
        /\ \E i \in 1..5 : ConfOf(input.confs, KindOrder[i]) = c
        /\ \A i \in 1..5 : ConfOf(input.confs, KindOrder[i]) <= c

\* C4: classify returns the first kind in the order COMPLETE_TASK,
\* DELETE_TASK, UPDATE_TASK, LIST_TASKS, ADD_TASK whose confidence is at
\* least the threshold, with that kind's confidence, whatever the later
\* kinds scored.
C4_PriorityOrder ==
    call.op = "classify" =>
        \A i \in 1..5 :
            ( /\ ConfOf(input.confs, KindOrder[i]) >= call.threshold
              /\ \A j \in 1..(i - 1) :
                    ConfOf(input.confs, KindOrder[j]) < call.threshold )
            => /\ call.ret.raised = "none"
               /\ call.ret.type = KindOrder[i]
               /\ call.ret.confidence = ConfOf(input.confs, KindOrder[i])

\* An input clearing the threshold for COMPLETE_TASK and, with a higher
\* score, for ADD_TASK has been classified as COMPLETE_TASK.
C4_Witness ==
    /\ Classified
    /\ input.confs["complete_task"] >= call.threshold
    /\ input.confs["add_task"] > input.confs["complete_task"]
    /\ call.ret.type = "COMPLETE_TASK"

\* C5 as stated: when no kind clears the threshold the result is AMBIGUOUS
\* with the best score as confidence and exactly the parameters
\* original_input and reason.
C5_AmbiguousExactParameters ==
    (call.op = "classify" /\ NoneClears) =>
        /\ call.ret.raised = "none"
        /\ call.ret.type = "AMBIGUOUS"
        /\ call.ret.confidence = BestScore
        /\ DOMAIN call.ret.parameters = {"original_input", "reason"}

ContextKeys == {"context_has_active_tasks", "conversation_state"}

\* C5 amended: when no kind clears the threshold the result is AMBIGUOUS
\* (and it is AMBIGUOUS only then), its confidence is the best score, and
\* its parameters are original_input (the user's input) and reason, joined
\* by the context-derived parameters exactly when the processed input
\* carries context features.
C5_AmbiguousFallback ==
    call.op = "classify" =>
        /\ call.ret.raised = "none"
        /\ (call.ret.type = "AMBIGUOUS") <=> NoneClears
        /\ NoneClears =>
              /\ BestScore < call.threshold
              /\ call.ret.confidence = BestScore
              /\ (DOMAIN call.ret.parameters) \ ContextKeys
                    = {"original_input", "reason"}
              /\ call.ret.parameters["original_input"] = input.text
              /\ ("conversation_state" \in DOMAIN call.ret.parameters)
                    <=> (input.context_features # EmptyDict)
              /\ ("context_has_active_tasks" \in DOMAIN call.ret.parameters)
                    <=> ( /\ input.context_features # EmptyDict
                          /\ input.context_features["active_tasks_count"] > 0 )

\* An input whose best score is positive and below the threshold has been
\* classified AMBIGUOUS, once without and once with context features.
C5_Witness ==
    /\ Classified
    /\ NoneClears
    /\ BestScore > 0
    /\ call.ret.type = "AMBIGUOUS"
    /\ input.context_features # EmptyDict

-----------------------------------------------------------------------------
(* Properties of map_intent_to_tool *)

Mapped == call.op = "map_intent_to_tool"

\* The parameter contract of each kind, as the table declares it.
RequiredOf(kind) ==
    CASE kind = "ADD_TASK"      -> {"task_content"}
      [] kind = "LIST_TASKS"    -> {}
      [] kind = "COMPLETE_TASK" -> {"task_id"}
      [] kind = "DELETE_TASK"   -> {"task_id"}
      [] kind = "UPDATE_TASK"   -> {"task_id", "updates"}

OptionalOf(kind) ==
    CASE kind = "ADD_TASK"      -> {"due_date", "priority", "tags"}
      [] kind = "LIST_TASKS"    -> {"filter", "sort_by", "sort_order", "limit"}
      [] kind = "COMPLETE_TASK" -> {}
      [] kind = "DELETE_TASK"   -> {}
      [] kind = "UPDATE_TASK"   -> {}

OperationKinds == {"ADD_TASK", "LIST_TASKS", "COMPLETE_TASK", "DELETE_TASK",
                   "UPDATE_TASK"}

AllowedOf(kind) == RequiredOf(kind) \cup OptionalOf(kind)

AbsentRequired == RequiredOf(input.type) \ DOMAIN input.parameters

UnknownKeys == (DOMAIN input.parameters) \ AllowedOf(input.type)

RaisedWith(error) ==
    call.ret.raised = "ValueError" /\ call.ret.error = error

SchemaClosure ==
    call.ret.raised = "none" =>
        /\ RequiredOf(input.type) \subseteq DOMAIN call.ret.parameters
        /\ (DOMAIN call.ret.parameters) \subseteq AllowedOf(input.type)

\* C6 as stated: a returned parameter map holds every required parameter
\* and no key outside required + optional, and an intent carrying a key
\* outside that set is rejected with the invalid-parameters error.
C6_UnknownKeyAlwaysInvalidError ==
    (Mapped /\ input.type \in OperationKinds) =>
        /\ SchemaClosure
        /\ UnknownKeys # {} => RaisedWith("invalid_parameters")

\* C6 amended: a returned parameter map holds every required parameter and
\* no key outside required + optional; an intent carrying a key outside
\* that set is always rejected: with the invalid-parameters error naming
\* exactly those keys when no required parameter is absent, and with the
\* missing-parameters error when one is.
C6_SchemaClosure ==
    (Mapped /\ input.type \in OperationKinds) =>
        /\ SchemaClosure
        /\ UnknownKeys # {} =>
              /\ call.ret.raised = "ValueError"
              /\ IF AbsentRequired = {}
                 THEN /\ call.ret.error = "invalid_parameters"
                      /\ call.ret.names = UnknownKeys
                 ELSE call.ret.error = "missing_parameters"

\* An UPDATE_TASK intent with both required parameters and an unknown key
\* has been rejected as invalid.
C6_Witness ==
    /\ Mapped
    /\ input.type = "UPDATE_TASK"
    /\ AbsentRequired = {}
    /\ "conversation_state" \in DOMAIN input.parameters
    /\ RaisedWith("invalid_parameters")

\* C7: an intent of a mapped kind that lacks a required parameter fails
\* with the missing-parameters error, which names every absent required
\* parameter, and no tool parameters are returned.
C7_MissingParameters ==
    (Mapped /\ input.type \in OperationKinds /\ AbsentRequired # {}) =>
        /\ RaisedWith("missing_parameters")
        /\ call.ret.names = AbsentRequired
        /\ "parameters" \notin DOMAIN call.ret

\* An UPDATE_TASK intent that carries updates but no task_id has failed
\* naming task_id.
C7_Witness ==
    /\ Mapped
    /\ input.type = "UPDATE_TASK"
    /\ DOMAIN input.parameters = {"updates"}
    /\ RaisedWith("missing_parameters")
    /\ call.ret.names = {"task_id"}

-----------------------------------------------------------------------------
(* Properties of process_input *)

Processed == call.op = "process_input"

\* C1: process_input returns a string response and no exception escapes
\* it, whatever the input: also when the intent lacks a required
\* parameter, carries an unknown one, has no tool mapping, or the tool
\* execution fails.
C1_AlwaysReturnsResponse ==
    Processed => /\ call.raised = "none"
                 /\ "response" \in DOMAIN call

\* C2: when the tool execution boundary returns success = false, the text
\* process_input returns is an error phrasing and never the success
\* message of the operation.
C2_FailureIsNotReportedAsSuccess ==
    (Processed /\ call.tool_called /\ ~call.result.success) =>
        /\ call.raised = "none"
        /\ call.response.action_type # "SUCCESS"

\* C3: an input classified AMBIGUOUS gets the clarification text; the
\* mapper and the tool execution boundary are not called and nothing is
\* raised, for every threshold the classifier holds.
C3_AmbiguousIsClarified ==
    (Processed /\ call.intent.type = "AMBIGUOUS") =>
        /\ call.raised = "none"
        /\ call.response.action_type = "CLARIFICATION"
        /\ ~call.mapper_called
        /\ ~call.tool_called

-----------------------------------------------------------------------------
(* Properties of the conversation context *)

LastN(seq, n) == SubSeq(seq, Len(seq) - n + 1, Len(seq))

TurnAdded == call.op \in {"add_user_turn", "add_agent_turn"}

\* C9: after each add_user_turn / add_agent_turn the context holds at most
\* max_turns turns, and once more than max_turns turns have been appended
\* it holds exactly the max_turns most recently appended ones, in their
\* original order, for every max_turns >= 0.
C9_TrimmingWindow ==
    TurnAdded =>
        /\ Len(turns) <= max_turns
        /\ Len(appended) > max_turns => turns = LastN(appended, max_turns)

AllowedTransition(from, to) ==
    \/ from = to
    \/ from = "ACTIVE" /\ to = "WAITING_FOR_CLARIFICATION"
    \/ from = "WAITING_FOR_CLARIFICATION" /\ to = "ACTIVE"
    \/ from = "ACTIVE" /\ to = "COMPLETED"
    \/ to = "EXPIRED"

\* C10: a context starts in ACTIVE and its state changes only along
\* ACTIVE -> WAITING_FOR_CLARIFICATION, WAITING_FOR_CLARIFICATION ->
\* ACTIVE, ACTIVE -> COMPLETED and into EXPIRED; a COMPLETED or EXPIRED
\* conversation never goes back to ACTIVE or WAITING_FOR_CLARIFICATION.
\* (A context restored by from_dict takes up the state it was saved in.)
C10_StateMachine ==
    /\ state = "ACTIVE"
    /\ [][call'.op # "from_dict" =>
            /\ AllowedTransition(state, state')
            /\ state \in {"COMPLETED", "EXPIRED"} =>
                  state' \notin {"ACTIVE", "WAITING_FOR_CLARIFICATION"}]_vars

-----------------------------------------------------------------------------
(* Specification of the conversation registry: the manager's operations,   *)
(* turns appended to registered contexts, and the clock moving on          *)

ConvIds == {"c1", "c2"}

TimeGrid == {t \in 0..MaxClock : t % TickSeconds = 0}

\* The entries of convs that convs2 no longer has.
Reaped(convs, convs2) ==
    [id \in (DOMAIN convs) \ (DOMAIN convs2) |-> convs[id]]

managerFrame == <<threshold, confidence_threshold, ctxVars, storeVars,
                  mappings, input, pc, local, intent_object, extVars>>

InitManager ==
    /\ threshold = MaxConf
    /\ input = "None"
    /\ InitBase

\* datetime.now() moves on.
Tick ==
    /\ now + TickSeconds <= MaxClock
    /\ now' = now + TickSeconds
    /\ call' = [op |-> "tick"]
    /\ UNCHANGED <<conversations, managerFrame>>

\* The outcome of a manager operation on conversation_id.
ManagerStep(op, conversation_id, out) ==
    /\ conversations' = out.conversations
    /\ call' = [op |-> op, conversation_id |-> conversation_id,
                ret |-> out.ret,
                reaped |-> Reaped(conversations, out.conversations)]
    /\ UNCHANGED <<now, managerFrame>>

CreateConversation ==
    \E id \in ConvIds :
        ManagerStep("create_conversation", id,
                    create_conversation(conversations, id, MaxTurnsBound, now))

GetConversation ==
    \E id \in ConvIds :
        ManagerStep("get_conversation", id,
                    get_conversation(conversations, id, now))

\* update_conversation with a context object made at some earlier time.
UpdateConversation ==
    \E id \in ConvIds, created \in {t \in TimeGrid : t <= now} :
        ManagerStep("update_conversation", id,
            [conversations |->
                update_conversation(conversations,
                                    NewContext(id, MaxTurnsBound, created)),
             ret |-> "None"])

DeleteConversation ==
    \E id \in ConvIds :
        ManagerStep("delete_conversation", id,
                    delete_conversation(conversations, id))

ClearAllConversations ==
    ManagerStep("clear_all_conversations", "None",
                clear_all_conversations(conversations))

CleanupExpiredConversations ==
    ManagerStep("cleanup_expired_conversations", "None",
                cleanup_expired_conversations(conversations, now))

GetActiveConversationsCount ==
    ManagerStep("get_active_conversations_count", "None",
                get_active_conversations_count(conversations, now))

GetOrCreateConversation ==
    \E id \in ConvIds :
        ManagerStep("get_or_create_conversation", id,
            get_or_create_conversation(conversations, id, MaxTurnsBound, now))

\* add_user_turn on a context the registry holds.
ManagedAddUserTurn ==
    \E id \in DOMAIN conversations :
        LET context == conversations[id]
            new_turns == trim_conversation(
                            Append(context.turns, TimedTurn("a", "user", now)),
                            context.max_turns)
        IN  /\ Len(context.turns) < MaxManagedTurns
            /\ conversations' = Put(conversations, id,
                                    Put(context, "turns", new_turns))
            /\ call' = [op |-> "add_user_turn", conversation_id |-> id]
            /\ UNCHANGED <<now, managerFrame>>

NextManager ==
    \/ Tick
    \/ CreateConversation
    \/ GetConversation
    \/ UpdateConversation
    \/ DeleteConversation
    \/ ClearAllConversations
    \/ CleanupExpiredConversations
    \/ GetActiveConversationsCount
    \/ GetOrCreateConversation
    \/ ManagedAddUserTurn

SpecManager == InitManager /\ [][NextManager]_vars

-----------------------------------------------------------------------------
(* Properties of the conversation registry *)

Age(context) == now - context.created_at

Fetched == call.op = "get_conversation"

Expired(context) == Age(context) > ExpirySeconds

\* The operations that look at is_expired: a fetch or a sweep.
CheckingOps == {"get_conversation", "cleanup_expired_conversations",
                "get_active_conversations_count",
                "get_or_create_conversation"}

\* C12: expiry is pull-based. An entry leaves the registry only by
\* delete_conversation or clear_all_conversations, or, being expired, when
\* an operation checks is_expired (a fetch or a sweep); the clock moving on
\* removes nothing. A sweep removes exactly the entries expired at that
\* moment, returns their number, and leaves every other entry as it was.
C12_PullBasedExpiry ==
    [][LET gone == (DOMAIN conversations) \ (DOMAIN conversations')
       IN  /\ gone # {} =>
                \/ call'.op \in {"delete_conversation",
                                 "clear_all_conversations"}
                \/ /\ call'.op \in CheckingOps
                   /\ \A id \in gone : Expired(conversations[id])
           /\ call'.op = "cleanup_expired_conversations" =>
                /\ gone = {id \in DOMAIN conversations :
                              Expired(conversations[id])}
                /\ call'.ret = Cardinality(gone)
                /\ DOMAIN conversations' = (DOMAIN conversations) \ gone
                /\ \A id \in DOMAIN conversations' :
                      conversations'[id] = conversations[id]]_vars

\* A sweep that removed an expired entry and kept another one.
C12_Witness ==
    /\ call.op = "cleanup_expired_conversations"
    /\ call.ret >= 1
    /\ call.reaped # EmptyDict
    /\ conversations # EmptyDict

-----------------------------------------------------------------------------
(* Specification of two requests appending to one context at the same time *)
(* A step of a request is one read or one write of self.turns:            *)
(*   begin   Turn(text, speaker) is built and self.turns is loaded         *)
(*   append  .append(turn) on the list that was loaded                     *)
(*   check   len(self.turns) > self.max_turns                              *)
(*   slice   self.turns[-self.max_turns:] builds the new list              *)
(*   assign  self.turns = the new list                                     *)

raceFrame == <<threshold, confidence_threshold, max_turns, state,
               active_tasks, last_intent, storeVars, mappings, input,
               conversations, now, intent_object, extVars>>

\* The text each request brings.
TextOf(t) == IF t = 1 THEN "a" ELSE "b"

OldTurn == Turn("old", "agent")

\* A context that already holds up to max_turns turns.
InitRace ==
    /\ threshold = MaxConf
    /\ confidence_threshold = MaxConf
    /\ max_turns \in 0..MaxTurnsBound
    /\ \E k \in 0..MaxTurnsBound :
          /\ k <= max_turns
          /\ turns = [i \in 1..k |-> OldTurn]
          /\ appended = [i \in 1..k |-> OldTurn]
    /\ state = "ACTIVE"
    /\ active_tasks = <<>>
    /\ last_intent = "None"
    /\ task_store = EmptyDict
    /\ next_task_id = 1
    /\ mappings = PREDEFINED_MAPPINGS
    /\ input = "None"
    /\ call = NoCall
    /\ InitAux

\* Some step was taken while the other request was under way.
Overlapped == "overlapped" \in DOMAIN call /\ call.overlapped

RaceCall(t, step) ==
    call' = [op |-> "add_turn", thread |-> t, step |-> step,
             overlapped |-> Overlapped \/
                            \E u \in Threads \ {t} :
                                pc[u] \notin {"idle", "done"}]

RaceBegin(t) ==
    /\ pc[t] = "idle"
    /\ \E speaker \in Speakers :
          local' = [local EXCEPT ![t] = [turn |-> Turn(TextOf(t), speaker),
                                         stale |-> FALSE, slice |-> <<>>]]
    /\ pc' = [pc EXCEPT ![t] = "append"]
    /\ RaceCall(t, "begin")
    /\ UNCHANGED <<turns, appended, raceFrame>>

\* The list loaded at begin is no longer self.turns when an assign came in
\* between: the append then lands in a list nobody reads.
RaceAppend(t) ==
    /\ pc[t] = "append"
    /\ turns' = IF local[t].stale THEN turns ELSE Append(turns, local[t].turn)
    /\ appended' = Append(appended, local[t].turn)
    /\ pc' = [pc EXCEPT ![t] = "check"]
    /\ RaceCall(t, "append")
    /\ UNCHANGED <<local, raceFrame>>

RaceCheck(t) ==
    /\ pc[t] = "check"
    /\ pc' = [pc EXCEPT ![t] = IF Len(turns) > max_turns THEN "slice"
                               ELSE "done"]
    /\ RaceCall(t, "check")
    /\ UNCHANGED <<turns, appended, local, raceFrame>>

RaceSlice(t) ==
    /\ pc[t] = "slice"
    /\ local' = [local EXCEPT ![t].slice = SliceFrom(turns, -max_turns)]
    /\ pc' = [pc EXCEPT ![t] = "assign"]
    /\ RaceCall(t, "slice")
    /\ UNCHANGED <<turns, appended, raceFrame>>

RaceAssign(t) ==
    /\ pc[t] = "assign"
    /\ turns' = local[t].slice
    /\ local' = [u \in Threads |->
                    IF u # t /\ pc[u] = "append"
                    THEN [local[u] EXCEPT !.stale = TRUE] ELSE local[u]]
    /\ pc' = [pc EXCEPT ![t] = "done"]
    /\ RaceCall(t, "assign")
    /\ UNCHANGED <<appended, raceFrame>>

NextRace ==
    \E t \in Threads :
        \/ RaceBegin(t)
        \/ RaceAppend(t)
        \/ RaceCheck(t)
        \/ RaceSlice(t)
        \/ RaceAssign(t)

SpecRace == InitRace /\ [][NextRace]_vars

-----------------------------------------------------------------------------
(* Properties of concurrent appends *)

AllDone == \A t \in Threads : pc[t] = "done"

\* The max_turns most recently appended turns.
RecentWindow ==
    LastN(appended, IF Len(appended) < max_turns THEN Len(appended)
                    ELSE max_turns)

\* The turn of request t is among the most recent ones, yet not in turns.
Missing(t) ==
    /\ \E i \in DOMAIN RecentWindow : RecentWindow[i] = local[t].turn
    /\ ~ \E i \in DOMAIN turns : turns[i] = local[t].turn

\* C13: updates are lost only without mutual exclusion. When the two
\* appends ran one after the other, no turn among the max_turns most recent
\* ones is missing once both have completed; an interleaving of their steps
\* exists after which one is (the witness).
C13_SerialAppendsLoseNothing ==
    (AllDone /\ ~Overlapped) => \A t \in Threads : ~Missing(t)

\* Both requests completed, each appended to the list that was self.turns
\* at that moment, and the turn of one of them is lost.
C13_Witness ==
    /\ AllDone
    /\ Overlapped
    /\ \A t \in Threads : ~local[t].stale
    /\ \E t \in Threads : Missing(t)

-----------------------------------------------------------------------------
(* Specification of one Intent object: construct, set_state, from_dict *)

intentFrame == <<threshold, confidence_threshold, ctxVars, storeVars,
                 mappings, input, conversations, now, pc, local, extVars>>

\* The dicts Intent.from_dict is given.
IntentDicts ==
    [id : {"i1"}, type : IntentType, confidence : ConfLevels,
     parameters : {EmptyDict}, timestamp : {isoformat(0)},
     state : IntentState]

\* Intent(intent_type, confidence)
InitIntent ==
    /\ InitExt
    /\ threshold = MaxConf
    /\ input = "None"
    /\ confidence_threshold = MaxConf
    /\ turns = <<>>
    /\ max_turns = MaxTurnsBound
    /\ state = "ACTIVE"
    /\ active_tasks = <<>>
    /\ last_intent = "None"
    /\ appended = <<>>
    /\ task_store = EmptyDict
    /\ next_task_id = 1
    /\ mappings = PREDEFINED_MAPPINGS
    /\ call = NoCall
    /\ conversations = EmptyDict
    /\ now = 0
    /\ pc = [t \in Threads |-> "idle"]
    /\ local = [t \in Threads |-> EmptyDict]
    /\ \E intent_type \in IntentType, confidence \in ConfLevels :
          intent_object = NewIntent(intent_type, confidence, EmptyDict,
                                    "i1", NoTime, now)

\* Intent.set_state
IntentSetState ==
    /\ \E new_state \in IntentState :
          intent_object' = intent_set_state(intent_object, new_state)
    /\ call' = [op |-> "set_state"]
    /\ UNCHANGED intentFrame

\* Intent.from_dict, the other way an Intent comes to be.
IntentFromDict ==
    /\ \E data \in IntentDicts :
          intent_object' = intent_from_dict(data, now)
    /\ call' = [op |-> "from_dict"]
    /\ UNCHANGED intentFrame

NextIntent == IntentSetState \/ IntentFromDict

SpecIntent == InitIntent /\ [][NextIntent]_vars

-----------------------------------------------------------------------------
(* Properties of the Intent lifecycle *)

\* How far along the lifecycle a state is.
Rank(lifecycle_state) ==
    CASE lifecycle_state = "RECOGNIZED" -> 0
      [] lifecycle_state = "VALIDATED"  -> 1
      [] lifecycle_state = "EXECUTED"   -> 2
      [] lifecycle_state = "FAILED"     -> 2

\* C14: an Intent starts at RECOGNIZED and its lifecycle state only
\* advances (RECOGNIZED -> VALIDATED -> EXECUTED or FAILED): no operation on
\* the Intent takes it back to an earlier state.  (An Intent restored by
\* from_dict takes up the state it was saved in.)
C14_LifecycleNeverRegresses ==
    /\ intent_object.state = "RECOGNIZED"
    /\ [][call'.op # "from_dict" =>
            Rank(intent_object'.state) >= Rank(intent_object.state)]_vars

-----------------------------------------------------------------------------
(* Properties of the context after process_input *)

\* C15: after process_input has handled a message on a context, the
\* context's last_intent is the Intent recognized for that message;
\* last_intent is absent only before the first message.
C15_LastIntentIsMostRecent ==
    Processed => /\ last_intent # "None"
                 /\ last_intent = call.intent

-----------------------------------------------------------------------------
(* Specification of the serialisation round trip of a context:            *)
(* to_dict, then from_dict on its result                                   *)

roundTripFrame == <<threshold, confidence_threshold, ctxVars, storeVars,
                    mappings, input, conversations, now, pc, local,
                    intent_object, extVars>>

\* The turns a context holds, each with the time it was made.
TimedTurns ==
    SeqsUpTo({TimedTurn("a", "user", 0), TimedTurn("b", "agent", TickSeconds)},
             2)

\* The Intent objects a context can carry as last_intent.
LastIntents ==
    {NoIntent} \cup
    {intent_set_state(NewIntent(intent_type, confidence, parameters, "i1",
                                NoTime, 0), lifecycle_state) :
        intent_type \in {"ADD_TASK", "AMBIGUOUS"}, confidence \in ConfLevels,
        parameters \in {EmptyDict, [task_content |-> <<"milk">>]},
        lifecycle_state \in IntentState}

\* The contexts to serialise: any window, state, history and task list.
Contexts ==
    [conversation_id : {"c1"},
     turns : TimedTurns,
     active_tasks : {<<>>, <<TaskIdOf(1)>>, <<TaskIdOf(2), TaskIdOf(1)>>},
     last_intent : LastIntents,
     summary : {"None", "about milk"},
     state : ConversationState,
     max_turns : {0, MaxTurnsBound},
     created_at : {0, TickSeconds}]

\* The context exists; the clock stands later than anything it recorded.
InitRoundTrip ==
    /\ InitExt
    /\ threshold = MaxConf
    /\ confidence_threshold = MaxConf
    /\ turns = <<>>
    /\ max_turns = MaxTurnsBound
    /\ state = "ACTIVE"
    /\ active_tasks = <<>>
    /\ last_intent = "None"
    /\ appended = <<>>
    /\ task_store = EmptyDict
    /\ next_task_id = 1
    /\ mappings = PREDEFINED_MAPPINGS
    /\ call = NoCall
    /\ conversations = EmptyDict
    /\ now = MaxClock
    /\ pc = [t \in Threads |-> "idle"]
    /\ local = [t \in Threads |-> EmptyDict]
    /\ intent_object = "None"
    /\ input \in Contexts

\* ConversationContext.to_dict
ToDict ==
    /\ call' = [op |-> "to_dict", ret |-> context_to_dict(input)]
    /\ UNCHANGED roundTripFrame

\* ConversationContext.from_dict on the dict just produced
FromDictOfToDict ==
    /\ call.op = "to_dict"
    /\ call' = [op |-> "from_dict", ret |-> context_from_dict(call.ret, now)]
    /\ UNCHANGED roundTripFrame

NextRoundTrip == ToDict \/ FromDictOfToDict

SpecRoundTrip == InitRoundTrip /\ [][NextRoundTrip]_vars

-----------------------------------------------------------------------------
(* Properties of the round trip *)

Restored == call.op = "from_dict"

\* C16: from_dict(c.to_dict()) has the same conversation id, the same turn
\* sequence (text, speaker and timestamp, in order), the same active-task
\* list, the same state, max_turns and created_at, and an equal last_intent.
C16_RoundTrip ==
    Restored =>
        /\ call.ret.conversation_id = input.conversation_id
        /\ call.ret.turns = input.turns
        /\ call.ret.active_tasks = input.active_tasks
        /\ call.ret.state = input.state
        /\ call.ret.max_turns = input.max_turns
        /\ call.ret.created_at = input.created_at
        /\ call.ret.last_intent = input.last_intent

\* A restored context with turns beyond its window, a task list, a state
\* other than ACTIVE and a last_intent past RECOGNIZED.
C16_Witness ==
    /\ Restored
    /\ Len(call.ret.turns) > call.ret.max_turns
    /\ call.ret.active_tasks # <<>>
    /\ call.ret.state = "COMPLETED"
    /\ call.ret.created_at # now
    /\ call.ret.last_intent # NoIntent
    /\ call.ret.last_intent.state = "EXECUTED"

-----------------------------------------------------------------------------
(* Properties of the active-task list *)

NoDuplicates(list) ==
    \A i, j \in DOMAIN list : i # j => list[i] # list[j]

\* C17: in every context built by add_active_task, remove_active_task and
\* from_dict the active-task list has no duplicate id and keeps
\* first-insertion order; adding an id already present and removing an id
\* not present leave the list unchanged.
C17_ActiveTasksAreAnOrderedSet ==
    /\ NoDuplicates(active_tasks)
    /\ call.op = "add_active_task" =>
          active_tasks = IF Contains(call.before, call.task_id)
                         THEN call.before
                         ELSE Append(call.before, call.task_id)
    /\ call.op = "remove_active_task" =>
          (~Contains(call.before, call.task_id) => active_tasks = call.before)

-----------------------------------------------------------------------------
(* Specification of the tool chain coordinator: one ToolChainCoordinator
   with its own MCPTOOLInterface, called with chains *)

chainFrame == <<threshold, confidence_threshold, ctxVars, mappings, input,
                auxVars>>

\* The chain parameters the actions draw from; the tasks the chains add are
\* all alike.
ChainLimits == {PyInt(ListThenActDefaultLimit), PyStr("ten")}
ChainActions ==
    {[tool |-> "add_task", params |-> [task_content |-> <<"x">>]],
     [tool |-> "complete_task", params |-> [task_id |-> TaskIdOf(1)]]}
ChainTaskIds == {TaskIdOf(1), TaskIdOf(MaxChainTasks)}
ChainUpdates == {EmptyDict, [priority |-> "high"]}

\* ToolChainCoordinator(): an empty store, the counter at 1.
InitChain ==
    /\ threshold = MaxConf
    /\ input = "None"
    /\ confidence_threshold = MaxConf
    /\ turns = <<>>
    /\ max_turns = MaxTurnsBound
    /\ state = "ACTIVE"
    /\ active_tasks = <<>>
    /\ last_intent = "None"
    /\ appended = <<>>
    /\ task_store = EmptyDict
    /\ next_task_id = 1
    /\ mappings = PREDEFINED_MAPPINGS
    /\ call = NoCall
    /\ InitAux

\* The effect of a chain on the coordinator's store, and its record.
ChainStep(op, parameters, run) ==
    /\ run.next_task_id <= MaxChainTasks + 1
    /\ task_store' = run.task_store
    /\ next_task_id' = run.next_task_id
    /\ call' = [op |-> op, parameters |-> parameters, result |-> run.result,
                calls |-> run.calls,
                added |-> run.next_task_id - next_task_id,
                present |-> /\ "task_id" \in DOMAIN parameters
                            /\ parameters.task_id \in DOMAIN task_store]
    /\ UNCHANGED chainFrame

\* coordinator.execute_chain(tool_mapping, conversation_context)
ExecuteChain ==
    \E key \in DOMAIN PREDEFINED_MAPPINGS :
    \E run \in {execute_chain(PREDEFINED_MAPPINGS[key], task_store,
                              next_task_id)} :
       ChainStep("execute_chain", [mapping |-> PREDEFINED_MAPPINGS[key]], run)

\* coordinator.execute_specific_chain("list_then_act", parameters) with an
\* action tool
ListThenAct ==
    \E limit \in ChainLimits, action \in ChainActions :
    \E parameters \in {[limit |-> limit, action_tool |-> action.tool,
                        action_params |-> action.params]} :
    \E run \in {execute_specific_chain("list_then_act", parameters,
                                       task_store, next_task_id)} :
       ChainStep("list_then_act", parameters, run)

\* coordinator.execute_specific_chain("list_then_act", parameters) without
\* an action tool and without a limit
ListThenActNoTool ==
    \E parameters \in {[action_params |-> EmptyDict]} :
    \E run \in {execute_specific_chain("list_then_act", parameters,
                                       task_store, next_task_id)} :
       ChainStep("list_then_act", parameters, run)

\* coordinator.execute_specific_chain("validate_then_update", parameters)
ValidateThenUpdate ==
    \E task_id \in ChainTaskIds, updates \in ChainUpdates :
    \E parameters \in {[task_id |-> task_id, updates |-> updates]} :
    \E run \in {execute_specific_chain("validate_then_update", parameters,
                                       task_store, next_task_id)} :
       ChainStep("validate_then_update", parameters, run)

\* coordinator.execute_specific_chain("validate_then_update", parameters)
\* without a task id
ValidateThenUpdateNoId ==
    \E parameters \in {[updates |-> [priority |-> "high"]]} :
    \E run \in {execute_specific_chain("validate_then_update", parameters,
                                       task_store, next_task_id)} :
       ChainStep("validate_then_update", parameters, run)

\* coordinator.execute_specific_chain with a chain type it does not know
UnknownChain ==
    \E run \in {execute_specific_chain("act_then_list", EmptyDict,
                                       task_store, next_task_id)} :
       ChainStep("unknown_chain", EmptyDict, run)

NextChain ==
    \/ ExecuteChain
    \/ ListThenAct
    \/ ListThenActNoTool
    \/ ValidateThenUpdate
    \/ ValidateThenUpdateNoId
    \/ UnknownChain

SpecChain == InitChain /\ [][NextChain]_vars

-----------------------------------------------------------------------------
(* Properties of the tool chains *)

\* C18: execute_chain on a mapping that needs no prior listing executes the
\* mapped operation through MCPTOOLInterface.execute_tool exactly once and
\* returns the result of that operation.
C18_DirectChainExecutesOnce ==
    call.op = "execute_chain" =>
        /\ Len(call.calls) = 1
        /\ call.calls[1].tool_name = call.parameters.mapping.mcp_tool
        /\ call.result = call.calls[1].result

\* The list step of the last list-then-act chain failed.
ListFailed ==
    /\ call.op = "list_then_act"
    /\ ~call.calls[1].result.success

\* C19: a list-then-act chain lists first; it executes the second operation
\* at most once and only after the listing succeeded; when the listing
\* fails the chain returns the listing's failure result and the second
\* operation is not attempted.
C19_ListThenAct ==
    call.op = "list_then_act" =>
        /\ Len(call.calls) \in {1, 2}
        /\ call.calls[1].tool_name = "list_tasks"
        /\ call.added \in {0, 1}
        /\ Len(call.calls) = 2 =>
              /\ call.calls[1].result.success
              /\ call.calls[2].tool_name = call.parameters.action_tool
        /\ ListFailed =>
              /\ Len(call.calls) = 1
              /\ call.added = 0
              /\ call.result = call.calls[1].result

\* A listing failed although the chain was given an action that would have
\* added a task.
C19_Witness ==
    /\ ListFailed
    /\ call.parameters.action_tool = "add_task"
    /\ call.result.error = "TypeError"

\* The update step of the last validate-then-update chain.
UpdateCalls ==
    SelectSeq(call.calls, LAMBDA c : c.tool_name = "update_task")

\* C20: in a validate-then-update chain given a task id the update is
\* performed if and only if that id is in the task store, however many
\* tasks are stored: absent, the chain returns the task-not-found error and
\* updates nothing; present, the update is executed once and its result is
\* what the chain returns.
C20_UpdateIffStored ==
    (call.op = "validate_then_update" /\ "task_id" \in DOMAIN call.parameters) =>
        /\ ~call.present =>
              /\ UpdateCalls = <<>>
              /\ call.result.error = "TASK_NOT_FOUND"
        /\ call.present =>
              /\ Len(UpdateCalls) = 1
              /\ call.result = UpdateCalls[1].result

-----------------------------------------------------------------------------
(* services/task_service.py *)

\* The ids of the model are pairs of strings; uuid.UUID accepts the ones
\* that begin with "uuid" and raises ValueError on the others.
Uuid(name) == <<"uuid", name>>
is_uuid(text) == text[1] = "uuid"

\* The None a lookup returns when no row matches.
NoTask == [none |-> TRUE]

\* What a service method leaves behind: the table, what it returned, and
\* the exception it raised, if any.
Served(table, ret, raised) == [table |-> table, ret |-> ret, raised |-> raised]

\* TaskService.create with the defaults of Task: a fresh id, created now.
service_create(table, nuuid, obj_in, t) ==
    LET id == Uuid(ToString(nuuid))
        db_obj == [id |-> id, user_id |-> obj_in.user_id,
                   content |-> obj_in.content, status |-> "pending",
                   due_date |-> obj_in.due_date, priority |-> obj_in.priority,
                   created_at |-> t, completed_at |-> NoTime]
    IN  Served(Put(table, id, db_obj), db_obj, "none")

\* TaskService.get_by_id_and_user with the owner left out of the query.
get_by_id_and_user_any_owner(table, task_id, user_id) ==
    IF ~is_uuid(user_id) THEN Served(table, NoTask, "ValueError")
    ELSE IF task_id \in DOMAIN table
    THEN Served(table, table[task_id], "none")
    ELSE Served(table, NoTask, "none")

\* TaskService.get_by_id_and_user
get_by_id_and_user(table, task_id, user_id) ==
    IF ~is_uuid(user_id) THEN Served(table, NoTask, "ValueError")
    ELSE IF task_id \in DOMAIN table /\ table[task_id].user_id = user_id
    THEN Served(table, table[task_id], "none")
    ELSE Served(table, NoTask, "none")

\* TaskService.get_tasks_by_user: the user's rows, newest first, cut to limit.
get_tasks_by_user(table, nuuid, user_id, status_filter, limit) ==
    IF ~is_uuid(user_id) THEN Served(table, <<>>, "ValueError")
    ELSE LET ids == SelectSeq([n \in 1..(nuuid - 1) |-> Uuid(ToString(n))],
                      LAMBDA id : /\ id \in DOMAIN table
                                  /\ table[id].user_id = user_id
                                  /\ status_filter \in {"completed", "pending"}
                                        => table[id].status = status_filter)
         IN  Served(table, SliceTo(Reverse(ids), limit), "none")

\* TaskService.update: the fields that were set go into the row, and a
\* completion gets its time when the row has none.
service_update(table, db_obj, update_data, t) ==
    LET set == [f \in DOMAIN db_obj |->
                  IF f \in DOMAIN update_data THEN update_data[f]
                  ELSE db_obj[f]]
        row == IF /\ Get(update_data, "status", "None") = "completed"
                  /\ set.completed_at = NoTime
               THEN Put(set, "completed_at", t) ELSE set
    IN  Served(Put(table, db_obj.id, row), row, "none")

\* The lookup the three changing methods start with: parse the task id,
\* then ask for the row of that id and owner.
lookup(table, task_id, user_id) ==
    IF ~is_uuid(task_id) THEN Served(table, NoTask, "ValueError")
    ELSE get_by_id_and_user(table, task_id, user_id)

\* TaskService.update_task_status
update_task_status(table, task_id, user_id, new_status, t) ==
    LET found == lookup(table, task_id, user_id)
    IN  IF found.raised # "none" \/ found.ret = NoTask THEN found
        ELSE service_update(table, found.ret, [status |-> new_status], t)

\* TaskService.delete_task, which is remove
service_delete_task(table, task_id, user_id) ==
    LET found == lookup(table, task_id, user_id)
    IN  IF found.raised # "none" \/ found.ret = NoTask THEN found
        ELSE Served([id \in (DOMAIN table) \ {task_id} |-> table[id]],
                    found.ret, "none")

\* TaskService.partial_update_task
partial_update_task(table, task_id, user_id, task_update, t) ==
    LET found == lookup(table, task_id, user_id)
    IN  IF found.raised # "none" \/ found.ret = NoTask THEN found
        ELSE service_update(table, found.ret, task_update, t)

-----------------------------------------------------------------------------
(* mcp_server/server.py *)

\* The default of the limit of MCPServer.list_tasks.
ServerDefaultLimit == 50

\* What a tool of the server leaves behind.
ServerRun(table, nuuid, result) ==
    [table |-> table, next_uuid |-> nuuid, result |-> result]

\* MCPServer.add_task
server_add_task(table, nuuid, user_id, content, t) ==
    IF strip(content) = <<>>
    THEN ServerRun(table, nuuid, Result(FALSE, "INVALID_INPUT"))
    ELSE IF ~is_uuid(user_id)
    THEN ServerRun(table, nuuid, Result(FALSE, "TASK_CREATION_FAILED"))
    ELSE LET made == service_create(table, nuuid,
                        [user_id |-> user_id, content |-> strip(content),
                         due_date |-> "None", priority |-> "medium"], t)
         IN  ServerRun(made.table, nuuid + 1,
                       [success |-> TRUE, task_id |-> made.ret.id])

\* MCPServer.list_tasks
server_list_tasks(table, nuuid, user_id, filter_type, limit) ==
    IF filter_type \notin {"all", "pending", "completed", "overdue"}
    THEN ServerRun(table, nuuid, Result(FALSE, "INVALID_FILTER"))
    ELSE LET got == get_tasks_by_user(table, nuuid, user_id,
                        IF filter_type # "all" THEN filter_type ELSE "None",
                        limit)
         IN  IF got.raised # "none"
             THEN ServerRun(table, nuuid, Result(FALSE, "LIST_RETRIEVAL_FAILED"))
             ELSE ServerRun(table, nuuid,
                            [success |-> TRUE, tasks |-> got.ret,
                             total_count |-> Len(got.ret)])

\* MCPServer.complete_task
server_complete_task(table, nuuid, user_id, task_id, t) ==
    LET done == update_task_status(table, task_id, user_id, "completed", t)
    IN  IF done.raised # "none"
        THEN ServerRun(table, nuuid, Result(FALSE, "TASK_COMPLETION_FAILED"))
        ELSE IF done.ret = NoTask
        THEN ServerRun(table, nuuid, Result(FALSE, "TASK_NOT_FOUND"))
        ELSE ServerRun(done.table, nuuid,
                       [success |-> TRUE, task_id |-> task_id])

\* MCPServer.delete_task
server_delete_task(table, nuuid, user_id, task_id) ==
    LET done == service_delete_task(table, task_id, user_id)
    IN  IF done.raised # "none"
        THEN ServerRun(table, nuuid, Result(FALSE, "TASK_DELETION_FAILED"))
        ELSE IF done.ret = NoTask
        THEN ServerRun(table, nuuid, Result(FALSE, "TASK_NOT_FOUND"))
        ELSE ServerRun(done.table, nuuid,
                       [success |-> TRUE, task_id |-> done.ret.id])

\* The keys MCPServer.update_task lets through.
allowed_updates == {"content", "due_date", "priority", "status"}

\* MCPServer.update_task
server_update_task(table, nuuid, user_id, task_id, updates, t) ==
    IF (DOMAIN updates) \ allowed_updates # {}
    THEN ServerRun(table, nuuid, Result(FALSE, "INVALID_INPUT"))
    ELSE LET done == partial_update_task(table, task_id, user_id, updates, t)
         IN  IF done.raised # "none"
             THEN ServerRun(table, nuuid, Result(FALSE, "TASK_UPDATE_FAILED"))
             ELSE IF done.ret = NoTask
             THEN ServerRun(table, nuuid, Result(FALSE, "TASK_NOT_FOUND"))
             ELSE ServerRun(done.table, nuuid,
                            [success |-> TRUE, task_id |-> task_id,
                             updated_fields |-> DOMAIN updates])

-----------------------------------------------------------------------------
(* Specification of the MCP server: the tools of one MCPServer called for
   two users over one tasks table *)

serverFrame == <<threshold, confidence_threshold, ctxVars, storeVars,
                 mappings, input, conversations, now, pc, local,
                 intent_object, heap>>

\* The two users, and the task ids the tools are called with: the ids the
\* table hands out, one it never hands out, and the task_<n> of the agents,
\* which is no UUID.
UserIds == {Uuid("a"), Uuid("b")}
ServerTaskIds ==
    {Uuid(ToString(n)) : n \in 1..(MaxRows + 1)} \cup {TaskIdOf(1)}
ServerUpdates ==
    {EmptyDict, [priority |-> "high"], [status |-> "completed"],
     [user_id |-> Uuid("b")]}

\* MCPServer() over an empty table.
InitServer ==
    /\ threshold = MaxConf
    /\ input = "None"
    /\ InitBase

\* The effect of a tool of the server, and its record.
ServerStep(op, user_id, task_id, updates, run) ==
    /\ tasks_table' = run.table
    /\ next_uuid' = run.next_uuid
    /\ call' = [op |-> op, boundary |-> "server", user_id |-> user_id,
                task_id |-> task_id, updates |-> updates,
                result |-> run.result, before |-> tasks_table]
    /\ UNCHANGED serverFrame

ServerAddTask ==
    /\ next_uuid <= MaxRows
    /\ \E user_id \in UserIds, content \in {<<"x">>, <<" ">>} :
       \E run \in {server_add_task(tasks_table, next_uuid, user_id, content,
                                   now)} :
          ServerStep("add_task", user_id, <<>>, EmptyDict, run)

ServerListTasks ==
    \E user_id \in UserIds, filter_type \in {"all", "completed", "today"} :
    \E run \in {server_list_tasks(tasks_table, next_uuid, user_id,
                                  filter_type, ServerDefaultLimit)} :
       ServerStep("list_tasks", user_id, <<>>, EmptyDict, run)

ServerCompleteTask ==
    \E user_id \in UserIds, task_id \in ServerTaskIds :
    \E run \in {server_complete_task(tasks_table, next_uuid, user_id,
                                     task_id, now)} :
       ServerStep("complete_task", user_id, task_id, EmptyDict, run)

ServerDeleteTask ==
    \E user_id \in UserIds, task_id \in ServerTaskIds :
    \E run \in {server_delete_task(tasks_table, next_uuid, user_id, task_id)} :
       ServerStep("delete_task", user_id, task_id, EmptyDict, run)

ServerUpdateTask ==
    \E user_id \in UserIds, task_id \in ServerTaskIds,
       updates \in ServerUpdates :
    \E run \in {server_update_task(tasks_table, next_uuid, user_id, task_id,
                                   updates, now)} :
       ServerStep("update_task", user_id, task_id, updates, run)

\* TaskService.get_by_id_and_user, the fetch of one task
ServerGetTask ==
    \E user_id \in UserIds, task_id \in ServerTaskIds \ {TaskIdOf(1)} :
    \E got \in {get_by_id_and_user(tasks_table, task_id, user_id)} :
       ServerStep("get_task", user_id, task_id, EmptyDict,
                  ServerRun(got.table, next_uuid, [task |-> got.ret]))

NextServer ==
    \/ ServerAddTask
    \/ ServerListTasks
    \/ ServerCompleteTask
    \/ ServerDeleteTask
    \/ ServerUpdateTask
    \/ ServerGetTask

SpecServer == InitServer /\ [][NextServer]_vars

-----------------------------------------------------------------------------
(* Properties of the tools on a task that is not there *)

\* The last call was one of the three tools that change a given task.
ChangingCall ==
    /\ call.op \in {"complete_task", "delete_task", "update_task"}
    /\ "boundary" \in DOMAIN call

\* The task the last call named is not a task of the acting user.
NotThere ==
    IF call.boundary = "server"
    THEN ~(/\ call.task_id \in DOMAIN call.before
           /\ call.before[call.task_id].user_id = call.user_id)
    ELSE call.task_id \notin DOMAIN call.before

\* What the last call left of what it found.
StoreAfter == IF call.boundary = "server" THEN tasks_table ELSE task_store

\* C21: complete_task, delete_task and update_task on a task id that does
\* not exist for the acting user return success = false with the error
\* code TASK_NOT_FOUND and a message, and leave the task store unchanged.
C21_MissingTaskIsNotFound ==
    (ChangingCall /\ NotThere) =>
        /\ call.result.success = FALSE
        /\ call.result.error = "TASK_NOT_FOUND"
        /\ "message" \in DOMAIN call.result
        /\ StoreAfter = call.before

-----------------------------------------------------------------------------
(* Properties of the calls the agent makes to the tools *)

\* C22: every call process_input makes to execute_tool carries the acting
\* user's id in its parameters, whatever parameters the classifier produced.
C22_ToolCallsCarryUserId ==
    Processed =>
        \A i \in DOMAIN call.tool_calls :
            "user_id" \in DOMAIN call.tool_calls[i].parameters

-----------------------------------------------------------------------------
(* Properties of the isolation between users *)

\* The last call named a task of the table that another user owns.
ForeignTask ==
    /\ call.op \in {"get_task", "complete_task", "update_task", "delete_task"}
    /\ call.boundary = "server"
    /\ call.task_id \in DOMAIN call.before
    /\ call.before[call.task_id].user_id # call.user_id

\* A listing holds only tasks of the user it was made for.
ListsOwnTasksOnly ==
    (call.op = "list_tasks" /\ call.result.success) =>
        \A i \in DOMAIN call.result.tasks :
            call.before[call.result.tasks[i]].user_id = call.user_id

-----------------------------------------------------------------------------
(* Specification of the in-memory tools: one MCPTOOLInterface called
   through execute_tool *)

toolsFrame == <<threshold, confidence_threshold, ctxVars, mappings, input,
                auxVars>>

ToolTaskIds == {TaskIdOf(1), TaskIdOf(2)}
ToolUpdates ==
    {EmptyDict, [priority |-> "high"], [id |-> TaskIdOf(9)],
     [owner |-> "bob"]}

\* MCPTOOLInterface(): an empty store, the counter at 1.
InitTools ==
    /\ threshold = MaxConf
    /\ input = "None"
    /\ InitBase

\* mcp_interface.execute_tool(tool_name, parameters), and its record
ToolStep(tool_name, parameters) ==
    \E run \in {execute_tool(tool_name, parameters, task_store,
                             next_task_id)} :
       /\ run.next_task_id <= MaxTasks + 1
       /\ task_store' = run.task_store
       /\ next_task_id' = run.next_task_id
       /\ call' = [op |-> tool_name, boundary |-> "interface",
                   task_id |-> Get(parameters, "task_id", <<>>),
                   updates |-> Get(parameters, "updates", EmptyDict),
                   result |-> run.result, before |-> task_store]
       /\ UNCHANGED toolsFrame

ToolAddTask == ToolStep("add_task", [task_content |-> <<"x">>])

ToolListTasks == ToolStep("list_tasks", EmptyDict)

ToolCompleteTask ==
    \E task_id \in ToolTaskIds :
       ToolStep("complete_task", [task_id |-> task_id])

ToolDeleteTask ==
    \E task_id \in ToolTaskIds :
       ToolStep("delete_task", [task_id |-> task_id])

ToolUpdateTask ==
    \E task_id \in ToolTaskIds, updates \in ToolUpdates :
       ToolStep("update_task", [task_id |-> task_id, updates |-> updates])

NextTools ==
    \/ ToolAddTask
    \/ ToolListTasks
    \/ ToolCompleteTask
    \/ ToolDeleteTask
    \/ ToolUpdateTask

SpecTools == InitTools /\ [][NextTools]_vars

-----------------------------------------------------------------------------
(* Properties of update_task *)

\* The fields of a task an update must never touch.
FixedFields == {"id", "user_id", "created_at"}

\* C24: update_task changes only content, due_date, priority and status of
\* a task: an updates map with any other key is rejected (as INVALID_INPUT
\* at the MCP server) with nothing stored, and the id, the owner and the
\* creation time of a task are never altered.
C24_UpdateChangesOnlyTheFourFields ==
    (call.op = "update_task" /\ "boundary" \in DOMAIN call) =>
        /\ (DOMAIN call.updates) \ allowed_updates # {} =>
              /\ ~call.result.success
              /\ call.boundary = "server" => call.result.error = "INVALID_INPUT"
              /\ StoreAfter = call.before
        /\ \A id \in (DOMAIN call.before) \cap (DOMAIN StoreAfter) :
              \A f \in FixedFields \cap (DOMAIN call.before[id]) :
                  StoreAfter[id][f] = call.before[id][f]

-----------------------------------------------------------------------------
(* Specification of the mapping table: the module-level PREDEFINED_MAPPINGS
   dict and the ToolMapper instances built on it *)

registryFrame == <<threshold, confidence_threshold, ctxVars, storeVars,
                   input, conversations, now, pc, local, intent_object,
                   tasks_table, next_uuid>>

MapperNames == {"mapper_a", "mapper_b"}

\* The mapping register_custom_mapping is given.
CustomMappings == {ToolMapping("delete_task", <<"task_id">>, <<>>)}

\* ToolMapper.__init__: self.mappings = PREDEFINED_MAPPINGS, the dict
\* itself, under the name the new mapper gets.
tool_mapper_init(objects, mapper) ==
    Put(objects, mapper, [mappings |-> "PREDEFINED_MAPPINGS"])

\* The dict a mapper's mappings attribute refers to.
mappings_of(objects, mapper) == objects[objects[mapper].mappings]

\* ToolMapper.register_custom_mapping: self.mappings[intent_type] = mapping
register_custom_mapping(objects, mapper, intent_type, mapping) ==
    Put(objects, objects[mapper].mappings,
        Put(mappings_of(objects, mapper), intent_type, mapping))

\* ToolMapper.get_mapping
get_mapping(objects, mapper, intent_type) ==
    Get(mappings_of(objects, mapper), intent_type, "None")

\* The import of models/tool_mapping.py: the table, no mapper yet.
InitRegistry ==
    /\ threshold = MaxConf
    /\ input = "None"
    /\ confidence_threshold = MaxConf
    /\ turns = <<>>
    /\ max_turns = MaxTurnsBound
    /\ state = "ACTIVE"
    /\ active_tasks = <<>>
    /\ last_intent = "None"
    /\ appended = <<>>
    /\ task_store = EmptyDict
    /\ next_task_id = 1
    /\ mappings = PREDEFINED_MAPPINGS
    /\ call = NoCall
    /\ conversations = EmptyDict
    /\ now = 0
    /\ pc = [t \in Threads |-> "idle"]
    /\ local = [t \in Threads |-> EmptyDict]
    /\ intent_object = "None"
    /\ tasks_table = EmptyDict
    /\ next_uuid = 1
    /\ heap = [PREDEFINED_MAPPINGS |-> PREDEFINED_MAPPINGS]

\* The Mappers built so far.
Mappers == (DOMAIN heap) \cap MapperNames

\* The step of an operation on a mapper, and its record; mappings is the
\* content of the module-level dict.
RegistryStep(op, mapper, intent_type, objects, ret) ==
    /\ heap' = objects
    /\ mappings' = objects["PREDEFINED_MAPPINGS"]
    /\ call' = [op |-> op, mapper |-> mapper, intent_type |-> intent_type,
                ret |-> ret, before |-> heap]
    /\ UNCHANGED registryFrame

\* ToolMapper()
NewToolMapper ==
    \E mapper \in MapperNames \ Mappers :
       RegistryStep("ToolMapper", mapper, "None",
                    tool_mapper_init(heap, mapper), "None")

\* mapper.register_custom_mapping(intent_type, mapping)
RegisterCustomMapping ==
    \E mapper \in Mappers, intent_type \in IntentType,
       mapping \in CustomMappings :
       RegistryStep("register_custom_mapping", mapper, intent_type,
                    register_custom_mapping(heap, mapper, intent_type,
                                            mapping), "None")

\* mapper.get_mapping(intent_type)
GetMapping ==
    \E mapper \in Mappers, intent_type \in IntentType :
       RegistryStep("get_mapping", mapper, intent_type, heap,
                    [mapping |-> get_mapping(heap, mapper, intent_type)])

NextRegistry == NewToolMapper \/ RegisterCustomMapping \/ GetMapping

SpecRegistry == InitRegistry /\ [][NextRegistry]_vars

-----------------------------------------------------------------------------
(* Properties of the mapping table *)

\* C25: the ToolMapping table is immutable after startup: no operation on
\* a ToolMapper instance changes what the predefined table, or any other
\* ToolMapper instance, associates with an Intent kind.
C25_TableIsImmutable ==
    call.op \in {"ToolMapper", "register_custom_mapping", "get_mapping"} =>
        /\ heap["PREDEFINED_MAPPINGS"] = PREDEFINED_MAPPINGS
        /\ \A other \in (DOMAIN call.before) \cap MapperNames :
              other # call.mapper =>
                  mappings_of(heap, other) = mappings_of(call.before, other)

-----------------------------------------------------------------------------
(* utils/confidence_scorer.py and the per-kind classifiers.  Confidences are
   in hundredths: 100 stands for 1.0.  A text is a sequence of words joined
   by single spaces; "?" is a punctuation mark standing alone. *)

MaxWords == 3

\* The upper end of the confidence range, 1.0.
Hundred == 100

Vocabulary == {"delete", "Remove", "tasks", "add", "show", "update",
               "please", "should", "what", "?"}

\* The built-in min and max of two numbers.
Min(a, b) == IF a <= b THEN a ELSE b

Max(a, b) == IF a >= b THEN a ELSE b

\* str.lower on a word.
lower(word) == IF word = "Remove" THEN "remove" ELSE word

\* user_input.lower()
lower_text(text) == [i \in 1..Len(text) |-> lower(text[i])]

\* The words of the source's keyword lists that occur inside a lower-case
\* word of the vocabulary, as the operator in of str finds them.
Inside(word) ==
    CASE word = "tasks"  -> {"a", "as", "task", "tasks"}
      [] word = "add"    -> {"a", "add"}
      [] word = "show"   -> {"how", "show"}
      [] word = "update" -> {"a", "date", "update"}
      [] word = "please" -> {"a", "as", "please"}
      [] word = "what"   -> {"a", "what"}
      [] word = "?"      -> {"?"}
      [] OTHER           -> {word}

\* The same for the words a vocabulary word starts with and ends with.
StartsWith(word) ==
    CASE word = "tasks" -> {"task", "tasks"}
      [] word = "add"   -> {"a", "add"}
      [] OTHER          -> {word}

EndsWith(word) ==
    CASE word = "show"   -> {"how", "show"}
      [] word = "update" -> {"date", "update"}
      [] OTHER           -> {word}

\* phrase in input_lower, for a phrase of one or more words.
phrase_in(phrase, input_lower) ==
    IF Len(phrase) = 1
    THEN \E i \in 1..Len(input_lower) : phrase[1] \in Inside(input_lower[i])
    ELSE \E i \in 1..(Len(input_lower) - Len(phrase) + 1) :
            /\ phrase[1] \in EndsWith(input_lower[i])
            /\ \A j \in 2..(Len(phrase) - 1) :
                  phrase[j] = input_lower[i + j - 1]
            /\ phrase[Len(phrase)]
                  \in StartsWith(input_lower[i + Len(phrase) - 1])

\* any(p in input_lower for p in phrases)
any_in(phrases, input_lower) ==
    \E phrase \in phrases : phrase_in(phrase, input_lower)

\* sum(1 for keyword in keywords if keyword in input_lower)
keyword_matches(keywords, input_lower) ==
    Cardinality({phrase \in keywords : phrase_in(phrase, input_lower)})

\* re.search of a phrase followed by \s+.+ : the phrase ends a word and
\* another word comes after it.
followed_in(phrase, input_lower) ==
    \E i \in 1..(Len(input_lower) - Len(phrase)) :
       /\ phrase[1] \in EndsWith(input_lower[i])
       /\ \A j \in 2..Len(phrase) : phrase[j] = input_lower[i + j - 1]

\* ConfidenceScorer.keyword_weights
keyword_weights ==
    [add_task |->
        [add |-> 90, create |-> 90, make |-> 80, remember |-> 80,
         schedule |-> 80, new |-> 70, task |-> 50, todo |-> 50],
     list_tasks |->
        [show |-> 90, list |-> 90, view |-> 80, display |-> 80, see |-> 80,
         get |-> 70, my |-> 50, tasks |-> 80, todos |-> 80],
     complete_task |->
        [complete |-> 90, finish |-> 90, done |-> 90, mark |-> 70,
         as |-> 50, check |-> 70],
     delete_task |->
        [delete |-> 95, remove |-> 90, cancel |-> 85, erase |-> 80,
         eliminate |-> 80],
     update_task |->
        [update |-> 90, change |-> 90, modify |-> 90, edit |-> 90,
         adjust |-> 80]]

Kinds == DOMAIN keyword_weights

\* The sum of the weights of a set of words.
RECURSIVE sum_weights(_, _)
sum_weights(weights, words) ==
    IF words = {} THEN 0
    ELSE LET word == CHOOSE w \in words : TRUE
         IN  (IF word \in DOMAIN weights THEN weights[word] ELSE 0)
             + sum_weights(weights, words \ {word})

\* re.sub(r'[^\w\s]', ' ', user_input.lower()) and set(... .split())
input_words(user_input) ==
    {lower(user_input[i]) : i \in 1..Len(user_input)} \ {"?"}

\* ConfidenceScorer._calculate_base_confidence
calculate_base_confidence(user_input, intent_type) ==
    LET input_lower == lower_text(user_input)
    IN  IF /\ intent_type = "add_task"
           /\ any_in({<<"want", "to">>, <<"need", "to">>, <<"should">>},
                     input_lower)
        THEN 20
        ELSE IF /\ intent_type = "list_tasks"
                /\ any_in({<<"what">>, <<"which">>, <<"how", "many">>},
                          input_lower)
        THEN 20
        ELSE IF /\ intent_type \in {"complete_task", "delete_task"}
                /\ phrase_in(<<"task">>, input_lower)
        THEN 15
        ELSE 5

\* The strong_indicators of ConfidenceScorer._apply_contextual_factors
scorer_strong_indicators ==
    [add_task |-> {<<"please", "add">>, <<"can", "you", "create">>,
                   <<"i", "need", "to", "add">>},
     list_tasks |-> {<<"show", "me">>, <<"list", "all">>,
                     <<"what", "are", "my">>, <<"display">>},
     complete_task |-> {<<"please", "complete">>, <<"mark", "as", "done">>,
                        <<"finish", "task">>},
     delete_task |-> {<<"please", "delete">>, <<"remove", "task">>,
                      <<"get", "rid", "of">>},
     update_task |-> {<<"update", "task">>, <<"change", "task">>,
                      <<"modify", "task">>}]

\* ConfidenceScorer._apply_contextual_factors
apply_contextual_factors(base_confidence, user_input, intent_type) ==
    LET boosted ==
            IF any_in(scorer_strong_indicators[intent_type],
                      lower_text(user_input))
            THEN Min((base_confidence * 130) \div 100, Hundred)
            ELSE base_confidence
    IN  IF Len(user_input) < 3 /\ boosted > 50
        THEN (boosted * 80) \div 100
        ELSE boosted

\* ConfidenceScorer.calculate_confidence; total_weight and
\* max_possible_weight add up the same weights.
calculate_confidence(user_input, intent_type) ==
    IF intent_type \notin DOMAIN keyword_weights THEN 0
    ELSE LET weights == keyword_weights[intent_type]
             total_weight == sum_weights(weights, input_words(user_input))
             max_possible_weight ==
                 sum_weights(weights, input_words(user_input))
         IN  IF max_possible_weight = 0
             THEN calculate_base_confidence(user_input, intent_type)
             ELSE apply_contextual_factors(
                      Min((total_weight * 100) \div max_possible_weight,
                          Hundred),
                      user_input, intent_type)

\* task_identifiers of the complete, delete and update classifiers
task_identifiers ==
    {<<"task">>, <<"number">>, <<"#">>, <<"no.">>, <<"item">>, <<"todo">>,
     <<"to-do">>}

\* DeleteTaskClassifier.keywords
delete_keywords ==
    {<<"delete">>, <<"remove">>, <<"cancel">>, <<"erase">>, <<"eliminate">>,
     <<"get", "rid", "of">>, <<"dispose", "of">>, <<"throw", "away">>,
     <<"scrub">>, <<"wipe">>, <<"clear">>, <<"purge">>,
     <<"delete", "task">>, <<"remove", "task">>, <<"cancel", "task">>}

\* DeleteTaskClassifier._calculate_delete_task_confidence with the boosts
\* left unbounded.
calculate_delete_task_confidence_unbounded(user_input) ==
    LET input_lower == lower_text(user_input)
        baseline == calculate_confidence(user_input, "delete_task")
        matches == keyword_matches(delete_keywords, input_lower)
        c1 == IF matches >= 2 THEN baseline + 25
              ELSE IF matches >= 1 THEN baseline + 15
              ELSE baseline
        c2 == IF any_in({<<"delete">>, <<"remove">>, <<"cancel">>},
                        input_lower)
              THEN c1 + 20 ELSE c1
        c3 == IF any_in(task_identifiers, input_lower)
              THEN c2 + 10 ELSE c2
        c4 == IF any_in({<<"add">>, <<"create">>, <<"show">>, <<"list">>,
                         <<"complete">>, <<"finish">>, <<"update">>,
                         <<"change">>}, input_lower)
              THEN Max(c3 - 20, 0) ELSE c3
    IN  IF Len(user_input) < 2 THEN Max(c4 - 15, 0) ELSE c4

\* DeleteTaskClassifier._calculate_delete_task_confidence
calculate_delete_task_confidence(user_input) ==
    LET input_lower == lower_text(user_input)
        baseline == calculate_confidence(user_input, "delete_task")
        matches == keyword_matches(delete_keywords, input_lower)
        c1 == IF matches >= 2 THEN Min(baseline + 25, Hundred)
              ELSE IF matches >= 1 THEN Min(baseline + 15, Hundred)
              ELSE baseline
        c2 == IF any_in({<<"delete">>, <<"remove">>, <<"cancel">>},
                        input_lower)
              THEN Min(c1 + 20, Hundred) ELSE c1
        c3 == IF any_in(task_identifiers, input_lower)
              THEN Min(c2 + 10, Hundred) ELSE c2
        c4 == IF any_in({<<"add">>, <<"create">>, <<"show">>, <<"list">>,
                         <<"complete">>, <<"finish">>, <<"update">>,
                         <<"change">>}, input_lower)
              THEN Max(c3 - 20, 0) ELSE c3
    IN  IF Len(user_input) < 2 THEN Max(c4 - 15, 0) ELSE c4

\* AddTaskClassifier.content_indicators
content_indicators ==
    {<<"to">>, <<"for">>, <<"about">>, <<"that">>, <<"is">>, <<"should">>}

\* AddTaskClassifier._appears_to_have_task_content: the three patterns,
\* then the count of words longer than two characters after the first one
\* (of the vocabulary only "?" is shorter).
appears_to_have_task_content(input_lower) ==
    LET verbs == {"add", "create", "make", "schedule"}
        nouns == {"task", "to-do", "todo"}
        links == {"to", "for", "about", "that", "is"}
        n == Len(input_lower)
        \* the place after verb, optional "a", noun, when they match at i
        after(i) ==
            IF EndsWith(input_lower[i]) \cap verbs = {} \/ i + 1 > n
            THEN 0
            ELSE IF input_lower[i + 1] \in nouns THEN i + 2
            ELSE IF /\ input_lower[i + 1] = "a"
                    /\ i + 2 <= n
                    /\ input_lower[i + 2] \in nouns
            THEN i + 3
            ELSE 0
        pattern1 == \E i \in 1..n :
                       /\ after(i) # 0
                       /\ after(i) + 1 <= n
                       /\ input_lower[after(i)] \in links
        pattern2 == \E i \in 1..n : after(i) # 0 /\ after(i) <= n
        pattern3 ==
            \E phrase \in {<<"remind", "me", "to">>, <<"need", "to">>,
                           <<"want", "to">>, <<"should">>,
                           <<"have", "to">>, <<"must">>} :
               followed_in(phrase, input_lower)
        action_words == {"add", "create", "make", "new", "schedule"}
        non_action_content ==
            {k \in 2..n : /\ input_lower[k] \notin action_words
                          /\ input_lower[k] # "?"}
    IN  IF pattern1 \/ pattern2 \/ pattern3 THEN TRUE
        ELSE IF n > 3 THEN Cardinality(non_action_content) >= 2
        ELSE FALSE

\* AddTaskClassifier._calculate_add_task_confidence
calculate_add_task_confidence(user_input) ==
    LET input_lower == lower_text(user_input)
        baseline == calculate_confidence(user_input, "add_task")
        c1 == IF any_in({<<"add">>, <<"create">>, <<"make">>, <<"new">>},
                        input_lower)
              THEN Min(baseline + 10, Hundred) ELSE baseline
        c2 == IF any_in(content_indicators, input_lower)
              THEN Min(c1 + 10, Hundred) ELSE c1
        c3 == IF appears_to_have_task_content(input_lower)
              THEN Min(c2 + 10, Hundred) ELSE c2
    IN  IF \/ Contains(user_input, "?")
           \/ any_in({<<"what">>, <<"how">>, <<"when">>, <<"where">>,
                      <<"who">>, <<"why">>}, input_lower)
        THEN Max(c3 - 20, 0) ELSE c3

\* ListTasksClassifier.keywords
list_keywords ==
    {<<"show">>, <<"list">>, <<"view">>, <<"display">>, <<"see">>,
     <<"get">>, <<"fetch">>, <<"find">>, <<"all">>, <<"my">>,
     <<"current">>, <<"tasks">>, <<"todos">>, <<"to-dos">>, <<"items">>,
     <<"what">>, <<"have">>, <<"got">>, <<"remaining">>, <<"pending">>,
     <<"completed">>, <<"done">>}

\* ListTasksClassifier._calculate_list_tasks_confidence
calculate_list_tasks_confidence(user_input) ==
    LET input_lower == lower_text(user_input)
        baseline == calculate_confidence(user_input, "list_tasks")
        matches == keyword_matches(list_keywords, input_lower)
        c1 == IF matches >= 2 THEN Min(baseline + 20, Hundred)
              ELSE IF matches >= 1 THEN Min(baseline + 10, Hundred)
              ELSE baseline
        c2 == IF any_in({<<"show">>, <<"list">>, <<"view">>,
                         <<"see", "my">>, <<"my", "tasks">>, <<"what">>},
                        input_lower)
              THEN Min(c1 + 15, Hundred) ELSE c1
    IN  IF any_in({<<"add">>, <<"create">>, <<"complete">>, <<"finish">>,
                   <<"delete">>, <<"remove">>, <<"update">>, <<"change">>},
                  input_lower)
        THEN Max(c2 - 30, 0) ELSE c2

\* CompleteTaskClassifier.keywords
complete_keywords ==
    {<<"complete">>, <<"finish">>, <<"done">>, <<"mark", "as", "done">>,
     <<"check">>, <<"complete", "task">>, <<"finish", "task">>,
     <<"done", "with">>, <<"accomplish">>, <<"achieve">>, <<"execute">>,
     <<"carry", "out">>, <<"perform">>, <<"tick", "off">>,
     <<"cross", "off">>}

\* CompleteTaskClassifier._calculate_complete_task_confidence
calculate_complete_task_confidence(user_input) ==
    LET input_lower == lower_text(user_input)
        baseline == calculate_confidence(user_input, "complete_task")
        matches == keyword_matches(complete_keywords, input_lower)
        strong_indicators == {<<"complete">>, <<"finish">>, <<"done">>,
                              <<"mark", "as", "done">>, <<"check">>}
        c1 == IF matches >= 2 THEN Min(baseline + 25, Hundred)
              ELSE IF matches >= 1 THEN Min(baseline + 15, Hundred)
              ELSE baseline
        c2 == IF any_in(strong_indicators, input_lower)
              THEN Min(c1 + 15, Hundred) ELSE c1
        c3 == IF any_in(task_identifiers, input_lower)
              THEN Min(c2 + 10, Hundred) ELSE c2
        c4 == IF any_in({<<"add">>, <<"create">>, <<"show">>, <<"list">>,
                         <<"delete">>, <<"remove">>, <<"update">>,
                         <<"change">>}, input_lower)
              THEN Max(c3 - 20, 0) ELSE c3
    IN  IF /\ Len(input_lower) > 0
           /\ StartsWith(input_lower[1]) \cap {"i", "the", "a", "an"} # {}
           /\ ~any_in(strong_indicators, input_lower)
        THEN Max(c4 - 10, 0) ELSE c4

\* UpdateTaskClassifier.keywords
update_keywords ==
    {<<"update">>, <<"change">>, <<"modify">>, <<"edit">>, <<"adjust">>,
     <<"alter">>, <<"revise">>, <<"modify", "task">>, <<"change", "task">>,
     <<"update", "task">>, <<"edit", "task">>, <<"adjust", "task">>}

\* The values of UpdateTaskClassifier.update_types, put together
update_indicators ==
    {<<"content">>, <<"text">>, <<"description">>, <<"detail">>, <<"info">>,
     <<"information">>, <<"priority">>, <<"importance">>, <<"urgency">>,
     <<"level">>, <<"status">>, <<"state">>, <<"completion">>, <<"done">>,
     <<"due", "date">>, <<"date">>, <<"deadline">>, <<"time">>, <<"when">>}

\* UpdateTaskClassifier._calculate_update_task_confidence
calculate_update_task_confidence(user_input) ==
    LET input_lower == lower_text(user_input)
        baseline == calculate_confidence(user_input, "update_task")
        matches == keyword_matches(update_keywords, input_lower)
        c1 == IF matches >= 2 THEN Min(baseline + 25, Hundred)
              ELSE IF matches >= 1 THEN Min(baseline + 15, Hundred)
              ELSE baseline
        c2 == IF any_in({<<"update">>, <<"change">>, <<"modify">>,
                         <<"edit">>, <<"adjust">>}, input_lower)
              THEN Min(c1 + 20, Hundred) ELSE c1
        c3 == IF any_in(task_identifiers, input_lower)
              THEN Min(c2 + 10, Hundred) ELSE c2
        c4 == IF any_in(update_indicators, input_lower)
              THEN Min(c3 + 15, Hundred) ELSE c3
        c5 == IF any_in({<<"add">>, <<"create">>, <<"show">>, <<"list">>,
                         <<"complete">>, <<"finish">>, <<"delete">>,
                         <<"remove">>}, input_lower)
              THEN Max(c4 - 20, 0) ELSE c4
    IN  IF Len(user_input) < 3 THEN Max(c5 - 15, 0) ELSE c5

\* The confidence the classifier of a kind computes.
classifier_confidence(intent_type, user_input) ==
    CASE intent_type = "add_task" ->
            calculate_add_task_confidence(user_input)
      [] intent_type = "list_tasks" ->
            calculate_list_tasks_confidence(user_input)
      [] intent_type = "complete_task" ->
            calculate_complete_task_confidence(user_input)
      [] intent_type = "delete_task" ->
            calculate_delete_task_confidence(user_input)
      [] intent_type = "update_task" ->
            calculate_update_task_confidence(user_input)

\* The range check of Intent.__post_init__ on a confidence in hundredths.
confidence_raises(confidence) ==
    IF confidence >= 0 /\ confidence <= Hundred
    THEN "None" ELSE "ValueError"

-----------------------------------------------------------------------------
(* Specification of the scoring of one text *)

scorerFrame == <<threshold, confidence_threshold, ctxVars, storeVars,
                 mappings, input, conversations, now, pc, local,
                 intent_object, extVars>>

UserInputs == SeqsUpTo(Vocabulary, MaxWords)

\* The text to score is given.
InitScorer ==
    /\ threshold = MaxConf
    /\ input \in [user_input : UserInputs]
    /\ confidence_threshold = MaxConf
    /\ turns = <<>>
    /\ max_turns = MaxTurnsBound
    /\ state = "ACTIVE"
    /\ active_tasks = <<>>
    /\ last_intent = "None"
    /\ appended = <<>>
    /\ task_store = EmptyDict
    /\ next_task_id = 1
    /\ mappings = PREDEFINED_MAPPINGS
    /\ call = NoCall
    /\ conversations = EmptyDict
    /\ now = 0
    /\ pc = [t \in Threads |-> "idle"]
    /\ local = [t \in Threads |-> EmptyDict]
    /\ intent_object = "None"
    /\ InitExt

\* get_confidence_score(user_input, intent_type)
GetConfidenceScore ==
    /\ call = NoCall
    /\ \E intent_type \in Kinds :
       \E score \in {calculate_confidence(input.user_input, intent_type)} :
          call' = [op |-> "get_confidence_score",
                   intent_type |-> intent_type,
                   confidence |-> score, raised |-> "None"]
    /\ UNCHANGED scorerFrame

\* The classify of the classifier of one kind: the confidence, then the
\* Intent built with it.
ClassifyKind ==
    /\ call = NoCall
    /\ \E intent_type \in Kinds :
       \E confidence \in {classifier_confidence(intent_type,
                                                input.user_input)} :
          call' = [op |-> "classify", intent_type |-> intent_type,
                   confidence |-> confidence,
                   raised |-> confidence_raises(confidence)]
    /\ UNCHANGED scorerFrame

NextScorer == GetConfidenceScore \/ ClassifyKind

SpecScorer == InitScorer /\ [][NextScorer]_vars

-----------------------------------------------------------------------------
(* Properties of the scoring *)

-----------------------------------------------------------------------------
(* Properties of classify followed by map_intent_to_tool *)

\* C27: supplying a conversation context never turns an accepted request
\* into a mapping failure: when the Intent classified from an input
\* processed without context is accepted by map_intent_to_tool, the Intent
\* classified from the same input processed with a context is accepted
\* too.
C27_ContextKeepsAccepted ==
    (call.op = "classify" /\ "type" \in DOMAIN call.ret) =>
        LET without == classify(input.confs, input.text, EmptyDict,
                                call.threshold)
        IN  map_intent_to_tool(mappings, without).raised = "none" =>
               map_intent_to_tool(mappings, call.ret).raised = "none"

-----------------------------------------------------------------------------
(* Specification of concurrent get_or_create_conversation calls: the
   registry holds references to ConversationContext objects, and two
   requests run the function step by step *)

getOrCreateFrame == <<threshold, confidence_threshold, ctxVars, storeVars,
                      mappings, input, now, intent_object, tasks_table>>

\* The reference of the n-th ConversationContext object built.
ContextRef(n) == "ctx_" \o ToString(n)

\* str(uuid4()) for the n-th id handed out.
UuidStr(n) == "uuid_" \o ToString(n)

\* ConversationManager.get_conversation on a registry of references.
get_conversation_ref(convs, objects, conversation_id, t) ==
    IF conversation_id \in DOMAIN convs
    THEN IF is_expired(objects[convs[conversation_id]], t)
         THEN LET swept == [id \in {k \in DOMAIN convs :
                                      ~is_expired(objects[convs[k]], t)}
                               |-> convs[id]]
              IN  [conversations |-> swept,
                   ret |-> Get(swept, conversation_id, "None")]
         ELSE [conversations |-> convs, ret |-> convs[conversation_id]]
    ELSE [conversations |-> convs, ret |-> "None"]

\* ConversationManager.create_conversation: a new object, registered under
\* the id in place of whatever was there.
create_conversation_ref(convs, objects, conversation_id, mt, t) ==
    LET ref == ContextRef(Cardinality(DOMAIN objects) + 1)
    IN  [conversations |-> Put(convs, conversation_id, ref),
         objects |-> Put(objects, ref, NewContext(conversation_id, mt, t)),
         ret |-> ref]

\* No conversation yet, no request under way.
InitGetOrCreate ==
    /\ threshold = MaxConf
    /\ input = "None"
    /\ InitBase

GetOrCreateCall(t, step, registered) ==
    call' = [op |-> "get_or_create_conversation", thread |-> t,
             step |-> step, registered |-> registered]

\* A request calls get_or_create_conversation(conversation_id); without
\* an id it goes straight to create_conversation().
GetOrCreateBegin(t) ==
    /\ pc[t] = "idle"
    /\ \E conversation_id \in ConvIds \cup {"None"} :
          /\ local' = [local EXCEPT ![t] =
                          [conversation_id |-> conversation_id,
                           context |-> "None"]]
          /\ pc' = [pc EXCEPT ![t] = IF conversation_id = "None"
                                     THEN "create" ELSE "get"]
    /\ GetOrCreateCall(t, "begin", TRUE)
    /\ UNCHANGED <<conversations, extVars, getOrCreateFrame>>

\* existing = conversation_manager.get_conversation(conversation_id)
GetOrCreateGet(t) ==
    /\ pc[t] = "get"
    /\ \E out \in {get_conversation_ref(conversations, heap,
                                        local[t].conversation_id, now)} :
          /\ conversations' = out.conversations
          /\ local' = [local EXCEPT ![t].context = out.ret]
          /\ pc' = [pc EXCEPT ![t] = IF out.ret # "None" THEN "use"
                                     ELSE "create"]
    /\ GetOrCreateCall(t, "get", TRUE)
    /\ UNCHANGED <<extVars, getOrCreateFrame>>

\* return conversation_manager.create_conversation(conversation_id)
GetOrCreateCreate(t) ==
    /\ pc[t] = "create"
    /\ LET fresh == local[t].conversation_id = "None"
           conversation_id == IF fresh THEN UuidStr(next_uuid)
                              ELSE local[t].conversation_id
       IN  \E out \in {create_conversation_ref(conversations, heap,
                                               conversation_id,
                                               max_turns, now)} :
              /\ conversations' = out.conversations
              /\ heap' = out.objects
              /\ next_uuid' = IF fresh THEN next_uuid + 1 ELSE next_uuid
              /\ local' = [local EXCEPT ![t] =
                              [conversation_id |-> conversation_id,
                               context |-> out.ret]]
    /\ pc' = [pc EXCEPT ![t] = "use"]
    /\ GetOrCreateCall(t, "create", TRUE)
    /\ UNCHANGED <<tasks_table, getOrCreateFrame>>

\* The caller appends a turn to the context it was given.
GetOrCreateAddTurn(t) ==
    /\ pc[t] = "use"
    /\ LET ref == local[t].context
           context == heap[ref]
       IN  /\ heap' = Put(heap, ref,
                          [context EXCEPT
                              !.turns = add_turn(context.turns,
                                                 context.max_turns,
                                                 TextOf(t), "user")])
           /\ GetOrCreateCall(t, "add_turn",
                  Get(conversations, local[t].conversation_id, "None")
                     = ref)
    /\ pc' = [pc EXCEPT ![t] = "done"]
    /\ UNCHANGED <<conversations, local, tasks_table, next_uuid,
                   getOrCreateFrame>>

NextGetOrCreate ==
    \E t \in Threads :
        \/ GetOrCreateBegin(t)
        \/ GetOrCreateGet(t)
        \/ GetOrCreateCreate(t)
        \/ GetOrCreateAddTurn(t)

SpecGetOrCreate == InitGetOrCreate /\ [][NextGetOrCreate]_vars

-----------------------------------------------------------------------------
(* Properties of concurrent get_or_create_conversation calls *)

\* Request t has been given its context.
Given(t) == pc[t] \in {"use", "done"}

\* C28: get_or_create_conversation yields one context per conversation id:
\* for every interleaving of concurrent calls with the same id, all
\* callers receive the same context object and the registry keeps that
\* object, so no caller appends turns to a context that is no longer
\* registered.
C28_OneContextPerId ==
    /\ \A t \in Threads :
          Given(t) =>
             /\ Get(conversations, local[t].conversation_id, "None")
                   = local[t].context
             /\ \A u \in Threads :
                   (Given(u) /\ local[u].conversation_id
                                   = local[t].conversation_id) =>
                       local[u].context = local[t].context
    /\ call.op = "get_or_create_conversation" => call.registered

-----------------------------------------------------------------------------
(* Specification of a context, its dict and the context rebuilt from the
   dict, as objects: each holds references to its lists *)

sharingFrame == <<threshold, confidence_threshold, ctxVars, storeVars,
                  mappings, input, conversations, now, pc, local,
                  intent_object, tasks_table, next_uuid>>

\* The context, the dict to_dict returns, the context from_dict returns.
Holders == {"c", "d", "c2"}

SharingTaskIds == {TaskIdOf(n) : n \in 1..MaxTaskNum}

\* The reference of the list an object created for one of its fields.
ListRef(owner, field) == owner \o "." \o field

\* ConversationContext.__init__: two new empty lists.
context_init(objects, owner) ==
    [x \in (DOMAIN objects)
            \cup {owner, ListRef(owner, "turns"),
                  ListRef(owner, "active_tasks")} |->
        IF x = owner
        THEN [turns |-> ListRef(owner, "turns"),
              active_tasks |-> ListRef(owner, "active_tasks")]
        ELSE IF x \in {ListRef(owner, "turns"),
                       ListRef(owner, "active_tasks")}
        THEN <<>>
        ELSE objects[x]]

\* ConversationContext.to_dict as a dict named d: a new list of turn
\* dicts, and self.active_tasks itself.
to_dict_ref(objects, self, d) ==
    LET turn_list == objects[objects[self].turns]
    IN  [x \in (DOMAIN objects) \cup {d, ListRef(d, "turns")} |->
            IF x = d
            THEN [turns |-> ListRef(d, "turns"),
                  active_tasks |-> objects[self].active_tasks]
            ELSE IF x = ListRef(d, "turns")
            THEN [i \in DOMAIN turn_list |-> turn_to_dict(turn_list[i])]
            ELSE objects[x]]

\* ConversationContext.from_dict: a new context, the turns appended to its
\* own list, and data['active_tasks'] itself as its active_tasks.
from_dict_ref(objects, data, context) ==
    LET built == context_init(objects, context)
        turn_list == objects[objects[data].turns]
    IN  [built EXCEPT
            ![ListRef(context, "turns")] =
                [i \in DOMAIN turn_list |->
                    TimedTurn(turn_list[i].text, turn_list[i].speaker,
                              fromisoformat(turn_list[i].timestamp))],
            ![context].active_tasks = objects[data].active_tasks]

\* The active tasks a holder shows.
active_tasks_of(objects, holder) == objects[objects[holder].active_tasks]

\* ConversationContext.add_active_task on the list self.active_tasks
\* refers to.
add_active_task_ref(objects, self, task_id) ==
    [objects EXCEPT ![objects[self].active_tasks] =
        add_active_task(active_tasks_of(objects, self), task_id)]

\* ConversationContext.remove_active_task, the same way.
remove_active_task_ref(objects, self, task_id) ==
    [objects EXCEPT ![objects[self].active_tasks] =
        remove_active_task(active_tasks_of(objects, self), task_id)]

\* ConversationContext.add_user_turn on the list self.turns refers to.
add_user_turn_ref(objects, self, text, t) ==
    [objects EXCEPT ![objects[self].turns] =
        trim_conversation(Append(objects[objects[self].turns],
                                 TimedTurn(text, "user", t)),
                          MaxTurnsBound)]

\* c = ConversationContext()
InitSharing ==
    /\ threshold = MaxConf
    /\ confidence_threshold = MaxConf
    /\ turns = <<>>
    /\ max_turns = MaxTurnsBound
    /\ state = "ACTIVE"
    /\ active_tasks = <<>>
    /\ last_intent = "None"
    /\ appended = <<>>
    /\ task_store = EmptyDict
    /\ next_task_id = 1
    /\ mappings = PREDEFINED_MAPPINGS
    /\ input = "None"
    /\ call = NoCall
    /\ conversations = EmptyDict
    /\ now = 0
    /\ pc = [t \in Threads |-> "idle"]
    /\ local = [t \in Threads |-> EmptyDict]
    /\ intent_object = "None"
    /\ tasks_table = EmptyDict
    /\ next_uuid = 1
    /\ heap = context_init(EmptyDict, "c")

SharingStep(op, self, task_id, objects) ==
    /\ heap' = objects
    /\ call' = [op |-> op, self |-> self, task_id |-> task_id,
                before |-> heap]
    /\ UNCHANGED sharingFrame

\* d = c.to_dict()
SharingToDict ==
    /\ "d" \notin DOMAIN heap
    /\ SharingStep("to_dict", "c", TaskIdOf(0), to_dict_ref(heap, "c", "d"))

\* c2 = ConversationContext.from_dict(d)
SharingFromDict ==
    /\ "d" \in DOMAIN heap
    /\ "c2" \notin DOMAIN heap
    /\ SharingStep("from_dict", "d", TaskIdOf(0),
                   from_dict_ref(heap, "d", "c2"))

\* c.add_active_task(task_id) or c2.add_active_task(task_id)
SharingAddActiveTask ==
    \E self \in {"c", "c2"} \cap DOMAIN heap, task_id \in SharingTaskIds :
       SharingStep("add_active_task", self, task_id,
                   add_active_task_ref(heap, self, task_id))

\* c.remove_active_task(task_id) or c2.remove_active_task(task_id)
SharingRemoveActiveTask ==
    \E self \in {"c", "c2"} \cap DOMAIN heap, task_id \in SharingTaskIds :
       SharingStep("remove_active_task", self, task_id,
                   remove_active_task_ref(heap, self, task_id))

\* c.add_user_turn(text) or c2.add_user_turn(text)
SharingAddUserTurn ==
    \E self \in {"c", "c2"} \cap DOMAIN heap :
       SharingStep("add_user_turn", self, TaskIdOf(0),
                   add_user_turn_ref(heap, self, TextOf(1), now))

NextSharing ==
    \/ SharingToDict
    \/ SharingFromDict
    \/ SharingAddUserTurn
    \/ SharingAddActiveTask
    \/ SharingRemoveActiveTask

SpecSharing == InitSharing /\ [][NextSharing]_vars

-----------------------------------------------------------------------------
(* Properties of serialized contexts *)

\* C29: serializing a context shares no mutable state: after
\* d = c.to_dict() and c2 = ConversationContext.from_dict(d), adding or
\* removing an active task on c2 leaves c and d unchanged, and doing so on
\* c leaves c2 and d unchanged.
C29_NoSharedState ==
    (/\ call.op \in {"add_active_task", "remove_active_task"}
     /\ "c2" \in DOMAIN call.before) =>
        \A other \in Holders \ {call.self} :
           active_tasks_of(heap, other) = active_tasks_of(call.before, other)

-----------------------------------------------------------------------------
(* agents/todo_agent.py: TodoAgent.process_message.  A message is the set
   of keyword groups it contains and the first number in it. *)

\* How many nested process_message calls the interpreter's stack holds
\* before it raises RecursionError.
RecursionLimit == 3

AgentMessages ==
    [keywords : {{}, {"add"}, {"list"}, {"complete"}, {"delete"},
                 {"add", "delete"}},
     num : 0..1]

Clients == {"gemini", "cohere", "openai"}

\* The dict of one tool call the agent builds.
AgentToolCall(name, arguments) == [name |-> name, arguments |-> arguments]

\* Lines 157-253: the tool calls the keywords of the message lead to.
keyword_tool_calls(message, user_id) ==
    IF "add" \in message.keywords
    THEN <<AgentToolCall("add_task",
                         [user_id |-> user_id, content |-> <<"x">>])>>
    ELSE IF "list" \in message.keywords
    THEN <<AgentToolCall("list_tasks",
                         [user_id |-> user_id, filter_type |-> "pending"])>>
    ELSE IF "complete" \in message.keywords
    THEN IF message.num # 0
         THEN <<AgentToolCall("complete_task",
                              [user_id |-> user_id,
                               task_id |-> TaskIdOf(message.num)])>>
         ELSE <<>>
    ELSE IF "delete" \in message.keywords
    THEN IF message.num # 0
         THEN <<AgentToolCall("delete_task",
                              [user_id |-> user_id,
                               task_id |-> TaskIdOf(message.num)])>>
         ELSE <<>>
    ELSE <<>>

\* MCPServer.execute_tool on a tool call of the agent.
agent_server_tool(table, nuuid, tool_call, t) ==
    LET arguments == tool_call.arguments
    IN  CASE tool_call.name = "add_task" ->
                server_add_task(table, nuuid, arguments.user_id,
                                arguments.content, t)
          [] tool_call.name = "list_tasks" ->
                server_list_tasks(table, nuuid, arguments.user_id,
                                  arguments.filter_type, ServerDefaultLimit)
          [] tool_call.name = "complete_task" ->
                server_complete_task(table, nuuid, arguments.user_id,
                                     arguments.task_id, t)
          [] tool_call.name = "delete_task" ->
                server_delete_task(table, nuuid, arguments.user_id,
                                   arguments.task_id)

\* Lines 259-279: the tool calls are executed one after the other (there
\* is one at most) and the results collected.
execute_tool_calls(table, nuuid, tool_calls, t) ==
    IF tool_calls = <<>>
    THEN [table |-> table, next_uuid |-> nuuid, tool_results |-> <<>>]
    ELSE LET run == agent_server_tool(table, nuuid, tool_calls[1], t)
         IN  [table |-> run.table, next_uuid |-> run.next_uuid,
              tool_results |-> <<[tool_name |-> tool_calls[1].name,
                                  arguments |-> tool_calls[1].arguments,
                                  result |-> run.result]>>]

-----------------------------------------------------------------------------
(* Specification of TodoAgent: one request at a time, a client that may
   fail at every call *)

fallbackFrame == <<threshold, confidence_threshold, ctxVars, storeVars,
                   mappings, input, conversations, now, intent_object,
                   heap>>

\* The request runs as thread 1.
Requester == 1

\* The agent's user.
AgentUser == Uuid("a")

\* TodoAgent.__init__: the client the environment configures, if any.
InitFallback ==
    /\ threshold = MaxConf
    /\ input \in [client : Clients \cup {"none"}]
    /\ InitBase

\* The record of a finished process_message.
Finish(raised, by, tool_results) ==
    call' = [op |-> "process_message", raised |-> raised, by |-> by,
             failures |-> local[Requester].failures,
             tool_calls |-> tool_results]

\* process_message(message, conversation_history) is called.
ProcessMessage ==
    /\ pc[Requester] \in {"idle", "returned", "raised"}
    /\ \E message \in AgentMessages :
          /\ "add" \in message.keywords => next_uuid <= MaxRows
          /\ local' = [local EXCEPT ![Requester] =
                          [message |-> message, frames |-> 1,
                           failures |-> 0]]
    /\ pc' = [pc EXCEPT ![Requester] = "dispatch"]
    /\ call' = [op |-> "call"]
    /\ UNCHANGED <<tasks_table, next_uuid, fallbackFrame>>

\* Lines 146-152: the configured client's method, or keyword detection
\* when no client is configured.
Dispatch ==
    /\ pc[Requester] = "dispatch"
    /\ pc' = [pc EXCEPT ![Requester] = IF input.client \in Clients
                                       THEN "client" ELSE "keyword"]
    /\ UNCHANGED <<call, local, tasks_table, next_uuid, fallbackFrame>>

\* The call to the language model raises.
ClientFails ==
    /\ pc[Requester] = "client"
    /\ local' = [local EXCEPT ![Requester].failures = @ + 1]
    /\ pc' = [pc EXCEPT ![Requester] = "except"]
    /\ UNCHANGED <<call, tasks_table, next_uuid, fallbackFrame>>

\* The language model answers, with a text or with a call of list_tasks,
\* to which the agent adds its user id and which it executes.
ClientAnswers ==
    /\ pc[Requester] = "client"
    /\ \E tool_calls \in
            {<<>>, <<AgentToolCall("list_tasks",
                                   [user_id |-> AgentUser,
                                    filter_type |-> "pending"])>>} :
       \E out \in {execute_tool_calls(tasks_table, next_uuid, tool_calls,
                                      now)} :
          /\ tasks_table' = out.table
          /\ next_uuid' = out.next_uuid
          /\ Finish("none", input.client, out.tool_results)
    /\ pc' = [pc EXCEPT ![Requester] = "returned"]
    /\ UNCHANGED <<local, fallbackFrame>>

\* The except clause of _process_with_openai, _process_with_cohere and
\* _process_with_gemini: return await self.process_message(...), one call
\* deeper; past the limit of the stack the interpreter raises
\* RecursionError, which leaves through every handler under way.
Fallback ==
    /\ pc[Requester] = "except"
    /\ IF local[Requester].frames + 1 > RecursionLimit
       THEN /\ Finish("RecursionError", "none", <<>>)
            /\ pc' = [pc EXCEPT ![Requester] = "raised"]
            /\ UNCHANGED local
       ELSE /\ local' = [local EXCEPT ![Requester].frames = @ + 1]
            /\ pc' = [pc EXCEPT ![Requester] = "dispatch"]
            /\ UNCHANGED call
    /\ UNCHANGED <<tasks_table, next_uuid, fallbackFrame>>

\* Lines 153-279: keyword detection, the tool call, the response.
KeywordDetection ==
    /\ pc[Requester] = "keyword"
    /\ \E out \in {execute_tool_calls(tasks_table, next_uuid,
                      keyword_tool_calls(local[Requester].message,
                                         AgentUser), now)} :
          /\ tasks_table' = out.table
          /\ next_uuid' = out.next_uuid
          /\ Finish("none", "keyword", out.tool_results)
    /\ pc' = [pc EXCEPT ![Requester] = "returned"]
    /\ UNCHANGED <<local, fallbackFrame>>

NextFallback ==
    \/ ProcessMessage
    \/ Dispatch
    \/ ClientFails
    \/ ClientAnswers
    \/ Fallback
    \/ KeywordDetection

SpecFallback == InitFallback /\ [][NextFallback]_vars

-----------------------------------------------------------------------------
(* Properties of TodoAgent.process_message *)

\* A process_message call has ended, and every call it made to the
\* language model failed.
EndedAfterFailures ==
    /\ pc[Requester] \in {"returned", "raised"}
    /\ call.op = "process_message"
    /\ call.failures > 0
    /\ call.by # input.client

\* C30: when the configured language-model call fails, TodoAgent falls
\* back to keyword detection and process_message returns a response after
\* a bounded number of steps, even if the model client fails on every
\* call.
C30_FallbackReturns ==
    EndedAfterFailures => (call.raised = "none" /\ call.by = "keyword")

=============================================================================
